---- MODULE Spec2Model ----
(***************************************************************************)
(* Core War virtual machine (src/src/vm): the modular numeric, the core,   *)
(* the round-robin scheduler of Vm::play and the executor Vm::execute      *)
(* with its addressing-mode fold.                                          *)
(*                                                                         *)
(* One step of the model is one iteration of the loop of Vm::play, or the  *)
(* entry to / return from a play call.  Option<T> is modelled as a         *)
(* sequence of length at most one.  A Rust panic (integer division by      *)
(* zero) is modelled by the flag `panicked`, after which nothing runs.     *)
(***************************************************************************)
EXTENDS Integers, Sequences, FiniteSets, TLC

\* Const generics of Vm<CORE_SIZE, QUEUE_SIZE>, scaled down for checking.
CORE_SIZE == 4
QUEUE_SIZE == 3
\* Rounds after which the model stops scheduling, largest play(n) argument.
MaxRound == 4
MaxTicks == 2
\* Width of usize in bits, scaled down for checking.
USIZE_BITS == 14
\* Longest source text of the generated programs, in lines.
MaxLines == 3

VARIABLES
    core,                  \* Vm.core: 0..CORE_SIZE-1 -> Instruction
    warriors_definitions,  \* Vm.warriors_definitions: Seq(Seq(Instruction))
    warriors_queues,       \* Vm.warriors_queues: Seq([warrior_id, instruction_queue])
    round,                 \* Vm.round
    next_warrior_id,       \* Vm.next_warrior_id: the scheduler cursor (0-based)
    pc,                    \* position of the embedder: "idle", inside play ("loop")
    tick_count,            \* argument of the running play call
    ticks_played,          \* local of the running play call
    result,                \* value returned by the last play call (Option<warrior index>)
    panicked,              \* TRUE once an instruction has panicked
    events,                \* VmEvents notified by the last step, in order
    exec,                  \* locals of the last Vm::execute call
    executed,              \* per warrior_id: instructions executed since construction
    last_step,             \* which kind of step produced this state
    iterations,            \* iterations of the while loop run by the running play call
    terminated_programs,   \* warrior ids of the TerminatedProgram events notified so far
    call,                  \* a call of a function of parser.rs or numeric.rs: its name and arguments
    ret,                   \* what the call returned (Option), None until it has
    overflow_checks        \* the build profile: TRUE if integer overflow panics, FALSE if it wraps

vars == <<core, warriors_definitions, warriors_queues, round, next_warrior_id,
          pc, tick_count, ticks_played, result, panicked, events, exec,
          executed, last_step, iterations, terminated_programs,
          call, ret, overflow_checks>>

\* the state of the virtual machine: the variables no function call changes
vm_vars == <<core, warriors_definitions, warriors_queues, round, next_warrior_id,
             pc, tick_count, ticks_played, result, panicked, events, exec,
             executed, last_step, iterations, terminated_programs>>

\* the variables of a function call, which the virtual machine leaves alone
call_vars == <<call, ret, overflow_checks>>

----------------------------------------------------------------------------
(* instructions.rs *)

OpCode == {"Dat", "Mov", "Add", "Sub", "Mul", "Div", "Mod",
           "Jmp", "Jmz", "Jmn", "Djn", "Cmp", "Slt", "Spl"}

Modifier == {"A", "B", "AB", "BA", "F", "X", "I"}

OperandMode == {"Immediate", "Direct", "Indirect", "Decrement", "Increment"}

Operand(mode, pointer) == [pointer |-> pointer, mode |-> mode]

Instruction(op, modifier, a_operand, b_operand) ==
    [op |-> op, modifier |-> modifier, a_operand |-> a_operand, b_operand |-> b_operand]

None == <<>>

Some(x) == <<x>>

----------------------------------------------------------------------------
(* numeric.rs: Numeric<CORE_SIZE> is modelled by its field `value` *)

Numeric_new(n) == n % CORE_SIZE

\* Add<Numeric> and Add<usize>
Numeric_add(self, rhs) == Numeric_new(self + rhs)

\* AddAssign<usize> without the reduction mod CORE_SIZE
Numeric_add_assign_NoWrap(self, rhs) == self + rhs

\* AddAssign<usize>
Numeric_add_assign(self, rhs) == (self + rhs) % CORE_SIZE

\* Sub<Numeric> with its operands exchanged
Numeric_sub_Swapped(self, rhs) == Numeric_new(rhs + CORE_SIZE - self)

\* Sub<Numeric>
Numeric_sub(self, rhs) == Numeric_new(self + CORE_SIZE - rhs)

\* SubAssign<usize>
Numeric_sub_assign(self, rhs) == (self + CORE_SIZE - rhs) % CORE_SIZE

\* Mul<Numeric>
Numeric_mul(self, rhs) == Numeric_new(self * rhs)

\* Div<Numeric>: usize division, panics when rhs.value = 0 (see DivPanics)
Numeric_div(self, rhs) == Numeric_new(self \div rhs)

\* Rem<Numeric>: usize remainder, panics when rhs.value = 0 (see DivPanics)
Numeric_rem(self, rhs) == Numeric_new(self % rhs)

----------------------------------------------------------------------------
(* event.rs *)

VmEvent(event_type, moved_from, offset, warrior_id, rnd) ==
    [event_type |-> event_type, moved_from |-> moved_from, offset |-> offset,
     warrior_id |-> warrior_id, round |-> rnd]

Change(address, warrior_id, rnd) ==
    VmEvent("Change", None, Some(address), warrior_id, rnd)

----------------------------------------------------------------------------
(* vms.rs: Vm::fold.  Each arm returns the resolved address, the core after *)
(* the side effect and the events notified.                                *)

Fold_Immediate(c, operand, instruction_pointer) ==
    [address |-> instruction_pointer, core |-> c, events |-> <<>>]

Fold_Direct(c, operand, instruction_pointer) ==
    [address |-> Numeric_add(operand.pointer, instruction_pointer),
     core |-> c, events |-> <<>>]

Fold_Indirect(c, operand, instruction_pointer) ==
    LET address == Numeric_add(operand.pointer, instruction_pointer)
    IN  [address |-> Numeric_add(address, c[address].b_operand.pointer),
         core |-> c, events |-> <<>>]

Fold_Increment(c, operand, instruction_pointer, warrior_id, rnd) ==
    LET address == Numeric_add(operand.pointer, instruction_pointer)
        r == c[address].b_operand.pointer
        c1 == [c EXCEPT ![address].b_operand.pointer = Numeric_add_assign(@, 1)]
    IN  [address |-> Numeric_add(address, r),
         core |-> c1, events |-> <<Change(address, warrior_id, rnd)>>]

\* Decrement arm that reads the pointer before decrementing it
Fold_Decrement_ReadFirst(c, operand, instruction_pointer, warrior_id, rnd) ==
    LET address == Numeric_add(operand.pointer, instruction_pointer)
        r == c[address].b_operand.pointer
        c1 == [c EXCEPT ![address].b_operand.pointer = Numeric_sub_assign(@, 1)]
    IN  [address |-> Numeric_add(address, r),
         core |-> c1, events |-> <<Change(address, warrior_id, rnd)>>]

Fold_Decrement(c, operand, instruction_pointer, warrior_id, rnd) ==
    LET address == Numeric_add(operand.pointer, instruction_pointer)
        c1 == [c EXCEPT ![address].b_operand.pointer = Numeric_sub_assign(@, 1)]
    IN  [address |-> Numeric_add(address, c1[address].b_operand.pointer),
         core |-> c1, events |-> <<Change(address, warrior_id, rnd)>>]

fold(c, operand, instruction_pointer, warrior_id, rnd) ==
    CASE operand.mode = "Immediate" -> Fold_Immediate(c, operand, instruction_pointer)
      [] operand.mode = "Direct"    -> Fold_Direct(c, operand, instruction_pointer)
      [] operand.mode = "Indirect"  -> Fold_Indirect(c, operand, instruction_pointer)
      [] operand.mode = "Increment" ->
            Fold_Increment(c, operand, instruction_pointer, warrior_id, rnd)
      [] operand.mode = "Decrement" ->
            Fold_Decrement(c, operand, instruction_pointer, warrior_id, rnd)

----------------------------------------------------------------------------
(* vms.rs: the opcode phase of Vm::execute.  The argument x carries the    *)
(* locals of execute after both folds: core, modifier, instruction_pointer,*)
(* a_address, b_address, a_instruction, b_instruction, warrior_id, round   *)
(* and queue_len (the length of the executing warrior's queue, which play  *)
(* has already popped).  Each opcode returns the core, the returned PCs,   *)
(* the events notified and whether it panicked.                            *)

Outcome(c, pcs, evs) == [core |-> c, pcs |-> pcs, events |-> evs, panic |-> FALSE]

\* instruction_pointer + 1 without the reduction mod CORE_SIZE
NextPc_NoWrap(x) == x.instruction_pointer + 1

NextPc(x) == Numeric_add(x.instruction_pointer, 1)

ChangeB(x) == Change(x.b_address, x.warrior_id, x.round)

\* the free functions with the operands of sub exchanged
ApplyOp_SubReversed(op, u, i) ==
    CASE op = "sum" -> Numeric_add(u, i)
      [] op = "sub" -> Numeric_sub(i, u)
      [] op = "mul" -> Numeric_mul(u, i)
      [] op = "div" -> Numeric_div(u, i)
      [] op = "rem" -> Numeric_rem(u, i)

\* the free functions sum, sub, mul, div, rem passed to the arithmetic handlers
ApplyOp(op, u, i) ==
    CASE op = "sum" -> Numeric_add(u, i)
      [] op = "sub" -> Numeric_sub(u, i)
      [] op = "mul" -> Numeric_mul(u, i)
      [] op = "div" -> Numeric_div(u, i)
      [] op = "rem" -> Numeric_rem(u, i)

Op_Dat(x) ==
    Outcome(x.core, <<>>,
            <<VmEvent("TerminatedThread", Some(x.instruction_pointer), None,
                      x.warrior_id, x.round)>>)

\* Mov that copies the pointers of the operands and leaves the modes
Op_Mov_PointersOnly(x) ==
    LET a == x.a_instruction
        b == x.b_address
        c1 == CASE x.modifier = "A"  ->
                     [x.core EXCEPT ![b].a_operand.pointer = a.a_operand.pointer]
                [] x.modifier = "B"  ->
                     [x.core EXCEPT ![b].b_operand.pointer = a.b_operand.pointer]
                [] x.modifier = "AB" ->
                     [x.core EXCEPT ![b].b_operand.pointer = a.a_operand.pointer]
                [] x.modifier = "BA" ->
                     [x.core EXCEPT ![b].a_operand.pointer = a.b_operand.pointer]
                [] x.modifier = "F"  ->
                     [x.core EXCEPT ![b].a_operand.pointer = a.a_operand.pointer,
                                    ![b].b_operand.pointer = a.b_operand.pointer]
                [] x.modifier = "X"  ->
                     [x.core EXCEPT ![b].a_operand.pointer = a.b_operand.pointer,
                                    ![b].b_operand.pointer = a.a_operand.pointer]
                [] x.modifier = "I"  -> [x.core EXCEPT ![b] = a]
    IN  Outcome(c1, <<NextPc(x)>>, <<ChangeB(x)>>)

\* Mov that copies only the two operands under modifier I
Op_Mov_OperandsOnly(x) ==
    LET a == x.a_instruction
        b == x.b_address
        c1 == CASE x.modifier = "A"  -> [x.core EXCEPT ![b].a_operand = a.a_operand]
                [] x.modifier = "B"  -> [x.core EXCEPT ![b].b_operand = a.b_operand]
                [] x.modifier = "AB" -> [x.core EXCEPT ![b].b_operand = a.a_operand]
                [] x.modifier = "BA" -> [x.core EXCEPT ![b].a_operand = a.b_operand]
                [] x.modifier \in {"F", "I"} ->
                                        [x.core EXCEPT ![b].a_operand = a.a_operand,
                                                       ![b].b_operand = a.b_operand]
                [] x.modifier = "X"  -> [x.core EXCEPT ![b].a_operand = a.b_operand,
                                                       ![b].b_operand = a.a_operand]
    IN  Outcome(c1, <<Numeric_add(x.instruction_pointer, 1)>>, <<ChangeB(x)>>)

Op_Mov(x) ==
    LET a == x.a_instruction
        b == x.b_address
        c1 == CASE x.modifier = "A"  -> [x.core EXCEPT ![b].a_operand = a.a_operand]
                [] x.modifier = "B"  -> [x.core EXCEPT ![b].b_operand = a.b_operand]
                [] x.modifier = "AB" -> [x.core EXCEPT ![b].b_operand = a.a_operand]
                [] x.modifier = "BA" -> [x.core EXCEPT ![b].a_operand = a.b_operand]
                [] x.modifier = "F"  -> [x.core EXCEPT ![b].a_operand = a.a_operand,
                                                       ![b].b_operand = a.b_operand]
                [] x.modifier = "X"  -> [x.core EXCEPT ![b].a_operand = a.b_operand,
                                                       ![b].b_operand = a.a_operand]
                [] x.modifier = "I"  -> [x.core EXCEPT ![b] = a]
    IN  Outcome(c1, <<NextPc(x)>>, <<ChangeB(x)>>)

handle_arithmetic(x, op) ==
    LET aa == x.a_instruction.a_operand.pointer
        ab == x.a_instruction.b_operand.pointer
        ba == x.b_instruction.a_operand.pointer
        bb == x.b_instruction.b_operand.pointer
        b  == x.b_address
        c1 == CASE x.modifier = "A"  ->
                     [x.core EXCEPT ![b].a_operand.pointer = ApplyOp(op, ba, aa)]
                [] x.modifier = "B"  ->
                     [x.core EXCEPT ![b].b_operand.pointer = ApplyOp(op, bb, ab)]
                [] x.modifier = "AB" ->
                     [x.core EXCEPT ![b].b_operand.pointer = ApplyOp(op, bb, aa)]
                [] x.modifier = "BA" ->
                     [x.core EXCEPT ![b].a_operand.pointer = ApplyOp(op, ba, ab)]
                [] x.modifier \in {"F", "I"} ->
                     [x.core EXCEPT ![b].a_operand.pointer = ApplyOp(op, ba, aa),
                                    ![b].b_operand.pointer = ApplyOp(op, bb, ab)]
                [] x.modifier = "X"  ->
                     [x.core EXCEPT ![b].b_operand.pointer = ApplyOp(op, bb, aa),
                                    ![b].a_operand.pointer = ApplyOp(op, ba, ab)]
    IN  Outcome(c1, <<NextPc(x)>>, <<ChangeB(x)>>)

\* One guarded write of handle_div_arithmetic: core[b].field.pointer := op(u, i).
\* Integer division or remainder by zero panics and leaves the cell unwritten.
DivWrite(st, b, field, op, u, i) ==
    IF st.panic THEN st
    ELSE IF i = 0 THEN [st EXCEPT !.panic = TRUE]
    ELSE [st EXCEPT !.core[b][field].pointer = ApplyOp(op, u, i)]

\* the end of handle_div_arithmetic that notifies Change whatever the result
DivResult_AlwaysNotify(x, st, returned) ==
    IF st.panic
    THEN [core |-> st.core, pcs |-> <<>>, events |-> <<>>, panic |-> TRUE]
    ELSE Outcome(st.core, returned, <<ChangeB(x)>>)

\* the end of handle_div_arithmetic: Change(b_address) is notified only if the
\* match returned a PC
DivResult(x, st, returned) ==
    IF st.panic
    THEN [core |-> st.core, pcs |-> <<>>, events |-> <<>>, panic |-> TRUE]
    ELSE Outcome(st.core, returned, IF Len(returned) > 0 THEN <<ChangeB(x)>> ELSE <<>>)

handle_div_arithmetic(x, op) ==
    LET aa == x.a_instruction.a_operand.pointer
        ab == x.a_instruction.b_operand.pointer
        ba == x.b_instruction.a_operand.pointer
        bb == x.b_instruction.b_operand.pointer
        b  == x.b_address
        st0 == [core |-> x.core, panic |-> FALSE]
        next == <<NextPc(x)>>
        arm == CASE x.modifier = "A" /\ aa # 0 ->
                      [st |-> DivWrite(st0, b, "a_operand", op, ba, aa), result |-> next]
                 [] x.modifier = "B" /\ ab # 0 ->
                      [st |-> DivWrite(st0, b, "b_operand", op, bb, ab), result |-> next]
                 [] x.modifier = "AB" /\ aa # 0 ->
                      [st |-> DivWrite(st0, b, "b_operand", op, ba, ab), result |-> next]
                 [] x.modifier = "BA" /\ ab # 0 ->
                      [st |-> DivWrite(st0, b, "a_operand", op, bb, aa), result |-> next]
                 [] x.modifier \in {"F", "I"} ->
                      LET s1 == IF aa # 0 THEN DivWrite(st0, b, "a_operand", op, ba, aa)
                                ELSE st0
                          s2 == IF ab # 0 THEN DivWrite(s1, b, "b_operand", op, bb, ab)
                                ELSE s1
                      IN  [st |-> s2,
                           result |-> IF aa # 0 /\ ab # 0 THEN next ELSE <<>>]
                 [] x.modifier = "X" ->
                      LET s1 == IF aa # 0 THEN DivWrite(st0, b, "b_operand", op, bb, aa)
                                ELSE st0
                          s2 == IF ab # 0 THEN DivWrite(s1, b, "a_operand", op, ba, ab)
                                ELSE s1
                      IN  [st |-> s2,
                           result |-> IF aa # 0 /\ ab # 0 THEN next ELSE <<>>]
                 [] OTHER -> [st |-> st0, result |-> <<>>]
    IN  DivResult(x, arm.st, arm.result)

Op_Jmp(x) == Outcome(x.core, <<x.a_address>>, <<>>)

\* the test shared by Jmz and Jmn on the snapshot b_instruction
SelectedZero(x) ==
    LET ba == x.b_instruction.a_operand.pointer
        bb == x.b_instruction.b_operand.pointer
    IN  CASE x.modifier \in {"A", "BA"} -> ba = 0
          [] x.modifier \in {"B", "AB"} -> bb = 0
          [] x.modifier \in {"F", "X", "I"} -> ba = 0 /\ bb = 0

Op_Jmz(x) ==
    Outcome(x.core, IF SelectedZero(x) THEN <<x.a_address>> ELSE <<NextPc(x)>>, <<>>)

\* Jmn that, under F, X and I, branches only if both pointers are non-zero
Op_Jmn_BothNonZero(x) ==
    LET ba == x.b_instruction.a_operand.pointer
        bb == x.b_instruction.b_operand.pointer
        jump == CASE x.modifier \in {"A", "BA"} -> ba # 0
                  [] x.modifier \in {"B", "AB"} -> bb # 0
                  [] x.modifier \in {"F", "X", "I"} -> ba # 0 /\ bb # 0
    IN  Outcome(x.core, IF jump THEN <<x.a_address>> ELSE <<NextPc(x)>>, <<>>)

Op_Jmn(x) ==
    Outcome(x.core, IF SelectedZero(x) THEN <<NextPc(x)>> ELSE <<x.a_address>>, <<>>)

\* Djn that, under F, X and I, branches only if both fields are non-zero
Op_Djn_BothNonZero(x) ==
    LET b == x.b_address
        c1 == CASE x.modifier \in {"A", "BA"} ->
                     [x.core EXCEPT ![b].a_operand.pointer = Numeric_sub_assign(@, 1)]
                [] x.modifier \in {"B", "AB"} ->
                     [x.core EXCEPT ![b].b_operand.pointer = Numeric_sub_assign(@, 1)]
                [] x.modifier \in {"F", "X", "I"} ->
                     [x.core EXCEPT ![b].a_operand.pointer = Numeric_sub_assign(@, 1),
                                    ![b].b_operand.pointer = Numeric_sub_assign(@, 1)]
        jump == CASE x.modifier \in {"A", "BA"} -> c1[b].a_operand.pointer # 0
                  [] x.modifier \in {"B", "AB"} -> c1[b].b_operand.pointer # 0
                  [] x.modifier \in {"F", "X", "I"} ->
                        c1[b].a_operand.pointer # 0 /\ c1[b].b_operand.pointer # 0
    IN  Outcome(c1, IF jump THEN <<x.a_address>> ELSE <<NextPc(x)>>, <<ChangeB(x)>>)

Op_Djn(x) ==
    LET b == x.b_address
        c1 == CASE x.modifier \in {"A", "BA"} ->
                     [x.core EXCEPT ![b].a_operand.pointer = Numeric_sub_assign(@, 1)]
                [] x.modifier \in {"B", "AB"} ->
                     [x.core EXCEPT ![b].b_operand.pointer = Numeric_sub_assign(@, 1)]
                [] x.modifier \in {"F", "X", "I"} ->
                     [x.core EXCEPT ![b].a_operand.pointer = Numeric_sub_assign(@, 1),
                                    ![b].b_operand.pointer = Numeric_sub_assign(@, 1)]
        jump == CASE x.modifier \in {"A", "BA"} -> c1[b].a_operand.pointer # 0
                  [] x.modifier \in {"B", "AB"} -> c1[b].b_operand.pointer # 0
                  [] x.modifier \in {"F", "X", "I"} ->
                        c1[b].a_operand.pointer # 0 \/ c1[b].b_operand.pointer # 0
    IN  Outcome(c1, IF jump THEN <<x.a_address>> ELSE <<NextPc(x)>>, <<ChangeB(x)>>)

Op_Cmp(x) ==
    LET a == x.core[x.a_address]
        b == x.core[x.b_address]
        eq == CASE x.modifier = "A"  -> b.a_operand.pointer = a.a_operand.pointer
                [] x.modifier = "B"  -> b.b_operand.pointer = a.b_operand.pointer
                [] x.modifier = "AB" -> b.b_operand.pointer = a.a_operand.pointer
                [] x.modifier = "BA" -> b.a_operand.pointer = a.b_operand.pointer
                [] x.modifier = "F"  -> /\ b.a_operand.pointer = a.a_operand.pointer
                                        /\ b.b_operand.pointer = a.b_operand.pointer
                [] x.modifier = "X"  -> /\ b.a_operand.pointer = a.b_operand.pointer
                                        /\ b.b_operand.pointer = a.a_operand.pointer
                [] x.modifier = "I"  -> b = a
    IN  Outcome(x.core,
                <<Numeric_add(x.instruction_pointer, IF eq THEN 2 ELSE 1)>>, <<>>)

Op_Slt(x) ==
    LET a == x.core[x.a_address]
        b == x.core[x.b_address]
        lt == CASE x.modifier = "A"  -> a.a_operand.pointer < b.a_operand.pointer
                [] x.modifier = "B"  -> a.b_operand.pointer < b.b_operand.pointer
                [] x.modifier = "AB" -> a.a_operand.pointer < b.b_operand.pointer
                [] x.modifier = "BA" -> a.b_operand.pointer < b.a_operand.pointer
                [] x.modifier \in {"F", "I"} ->
                      /\ a.a_operand.pointer < b.a_operand.pointer
                      /\ a.b_operand.pointer < b.b_operand.pointer
                [] x.modifier = "X"  -> /\ a.a_operand.pointer < b.b_operand.pointer
                                        /\ a.b_operand.pointer < b.a_operand.pointer
    IN  Outcome(x.core,
                <<Numeric_add(x.instruction_pointer, IF lt THEN 2 ELSE 1)>>, <<>>)

\* Spl that refuses the fork one entry too late
Op_Spl_OffByOne(x) ==
    Outcome(x.core,
            IF x.queue_len >= QUEUE_SIZE
            THEN <<NextPc(x)>>
            ELSE <<NextPc(x), x.a_address>>,
            <<>>)

\* Spl that returns the forked PC before the continuation
Op_Spl_Swapped(x) ==
    Outcome(x.core,
            IF x.queue_len >= QUEUE_SIZE - 1
            THEN <<NextPc(x)>>
            ELSE <<x.a_address, NextPc(x)>>,
            <<>>)

Op_Spl(x) ==
    Outcome(x.core,
            IF x.queue_len >= QUEUE_SIZE - 1
            THEN <<NextPc(x)>>
            ELSE <<NextPc(x), x.a_address>>,
            <<>>)

----------------------------------------------------------------------------
(* vms.rs: Vm::execute, in the order of its statements: fold the a-operand, *)
(* fold the b-operand, snapshot a_instruction and b_instruction, match on   *)
(* the opcode.  The record returned holds the core, the PCs and the events  *)
(* the call produced, and its locals.                                       *)

\* match operation.op { ... }
Dispatch(op, x) ==
    CASE op = "Dat" -> Op_Dat(x)
      [] op = "Mov" -> Op_Mov(x)
      [] op = "Add" -> handle_arithmetic(x, "sum")
      [] op = "Sub" -> handle_arithmetic(x, "sub")
      [] op = "Mul" -> handle_arithmetic(x, "mul")
      [] op = "Div" -> handle_div_arithmetic(x, "div")
      [] op = "Mod" -> handle_div_arithmetic(x, "rem")
      [] op = "Jmp" -> Op_Jmp(x)
      [] op = "Jmz" -> Op_Jmz(x)
      [] op = "Jmn" -> Op_Jmn(x)
      [] op = "Djn" -> Op_Djn(x)
      [] op = "Cmp" -> Op_Cmp(x)
      [] op = "Slt" -> Op_Slt(x)
      [] op = "Spl" -> Op_Spl(x)

\* the locals of execute with the snapshots taken before the b-operand is folded
ExecuteLocals_EarlySnapshot(queue_len, operation, instruction_pointer, warrior_id, rnd, a_fold, b_fold) ==
    [core |-> b_fold.core,
     modifier |-> operation.modifier,
     instruction_pointer |-> instruction_pointer,
     a_address |-> a_fold.address,
     b_address |-> b_fold.address,
     a_instruction |-> a_fold.core[a_fold.address],
     b_instruction |-> a_fold.core[b_fold.address],
     warrior_id |-> warrior_id,
     round |-> rnd,
     queue_len |-> queue_len]

\* the locals of execute once both operands are folded
ExecuteLocals(queue_len, operation, instruction_pointer, warrior_id, rnd, a_fold, b_fold) ==
    [core |-> b_fold.core,
     modifier |-> operation.modifier,
     instruction_pointer |-> instruction_pointer,
     a_address |-> a_fold.address,
     b_address |-> b_fold.address,
     a_instruction |-> b_fold.core[a_fold.address],
     b_instruction |-> b_fold.core[b_fold.address],
     warrior_id |-> warrior_id,
     round |-> rnd,
     queue_len |-> queue_len]

ExecuteResult(c, operation, a_fold, b_fold, x, out) ==
    [core |-> out.core,
     pcs |-> out.pcs,
     events |-> a_fold.events \o b_fold.events \o out.events,
     panic |-> out.panic,
     instruction_pointer |-> x.instruction_pointer,
     operation |-> operation,
     warrior_id |-> x.warrior_id,
     queue_len |-> x.queue_len,
     core0 |-> c,
     a_fold |-> a_fold,
     b_fold |-> b_fold,
     a_instruction |-> x.a_instruction,
     b_instruction |-> x.b_instruction,
     op_events |-> out.events]

ExecuteOpcode(c, operation, a_fold, b_fold, x) ==
    ExecuteResult(c, operation, a_fold, b_fold, x, Dispatch(operation.op, x))

ExecuteFolded(c, queue_len, operation, instruction_pointer, warrior_id, rnd, a_fold, b_fold) ==
    ExecuteOpcode(c, operation, a_fold, b_fold,
                  ExecuteLocals(queue_len, operation, instruction_pointer,
                                warrior_id, rnd, a_fold, b_fold))

\* fold of the b-operand read from core[ip] after the fold of the a-operand
ExecuteFoldB_Reread(c, queue_len, operation, instruction_pointer, warrior_id, rnd, a_fold) ==
    ExecuteFolded(c, queue_len, operation, instruction_pointer, warrior_id, rnd,
                  a_fold,
                  fold(a_fold.core, a_fold.core[instruction_pointer].b_operand,
                       instruction_pointer, warrior_id, rnd))

ExecuteFoldB(c, queue_len, operation, instruction_pointer, warrior_id, rnd, a_fold) ==
    ExecuteFolded(c, queue_len, operation, instruction_pointer, warrior_id, rnd,
                  a_fold,
                  fold(a_fold.core, operation.b_operand, instruction_pointer,
                       warrior_id, rnd))

execute(c, queue_len, operation, instruction_pointer, warrior_id, rnd) ==
    ExecuteFoldB(c, queue_len, operation, instruction_pointer, warrior_id, rnd,
                 fold(c, operation.a_operand, instruction_pointer, warrior_id, rnd))

----------------------------------------------------------------------------
(* vms.rs: Vm::new *)

\* the sentinel every core cell is initialised to
EmptyCell == Instruction("Dat", "A", Operand("Direct", 0), Operand("Direct", 0))

\* where warrior number k (1-based) of n is loaded: instruction_pointer
LoadAddress(k, n) == (k - 1) * (CORE_SIZE \div n)

\* the loading loops: core[instruction_pointer + ix] = op, warrior after
\* warrior, so that a cell written twice keeps the later warrior's instruction
LoadWarriors(c, defs) ==
    [i \in DOMAIN c |->
        LET covering == { k \in 1 .. Len(defs) :
                            i - LoadAddress(k, Len(defs)) \in 0 .. (Len(defs[k]) - 1) }
        IN  IF covering = {} THEN c[i]
            ELSE LET k == CHOOSE j \in covering : \A l \in covering : l <= j
                 IN  defs[k][i - LoadAddress(k, Len(defs)) + 1]]

\* the length check that rejects 50 warriors as well
CountRejected_OffByOne(n) == n >= 50 \/ n < 2

\* the length check at the head of Vm::new
CountRejected(n) == n > 50 \/ n < 2

\* core[instruction_pointer + ix] indexes a [Instruction; CORE_SIZE] with a
\* plain usize: an index of CORE_SIZE or more panics
LoadPanics(defs) ==
    \E k \in 1 .. Len(defs) :
        \E ix \in 0 .. (Len(defs[k]) - 1) :
            LoadAddress(k, Len(defs)) + ix >= CORE_SIZE

\* ok: the Ok(Vm) returned; ~ok /\ ~panic: the Err returned; panic: no return
Vm_new(defs) ==
    IF CountRejected(Len(defs))
    THEN [ok |-> FALSE, panic |-> FALSE]
    ELSE IF LoadPanics(defs)
    THEN [ok |-> FALSE, panic |-> TRUE]
    ELSE [ok |-> TRUE,
          panic |-> FALSE,
          core |-> LoadWarriors([i \in 0 .. (CORE_SIZE - 1) |-> EmptyCell], defs),
          warriors_definitions |-> defs,
          warriors_queues |->
              [k \in 1 .. Len(defs) |->
                  [warrior_id |-> k - 1,
                   instruction_queue |->
                       <<Numeric_new(LoadAddress(k, Len(defs)))>>]],
          round |-> 0,
          next_warrior_id |-> 0]

----------------------------------------------------------------------------
(* parser.rs: the assembler.  Source text is a string, whose characters are *)
(* its substrings of length one.  A HashMap is a function from its keys.    *)
(* A Result is a record [kind, value] of kind "Ok" or "Err"; a call that    *)
(* unwinds with a panic is the record of kind "Panic".                      *)

Ok(v) == [kind |-> "Ok", value |-> v]

Err(message) == [kind |-> "Err", value |-> message]

Panic == [kind |-> "Panic", value |-> ""]

Char(s, i) == SubSeq(s, i, i)

\* char::is_whitespace, over the characters of the source texts
WHITESPACE == {" ", "\t", "\n", "\r"}

DIGITS == "0123456789"

UPPERCASE == "ABCDEFGHIJKLMNOPQRSTUVWXYZ"

LOWERCASE == "abcdefghijklmnopqrstuvwxyz"

\* char::is_numeric, over the characters of the source texts
is_numeric(c) == \E i \in 1 .. Len(DIGITS) : Char(DIGITS, i) = c

DigitValue(c) == (CHOOSE i \in 1 .. Len(DIGITS) : Char(DIGITS, i) = c) - 1

LowerChar(c) ==
    IF \E i \in 1 .. Len(UPPERCASE) : Char(UPPERCASE, i) = c
    THEN Char(LOWERCASE, CHOOSE i \in 1 .. Len(UPPERCASE) : Char(UPPERCASE, i) = c)
    ELSE c

RECURSIVE to_lowercase(_)
\* str::to_lowercase
to_lowercase(s) ==
    IF s = "" THEN "" ELSE LowerChar(Char(s, 1)) \o to_lowercase(Tail(s))

\* the positions of the separator characters of s from position start on
SeparatorsFrom(s, separators, start) ==
    { i \in start .. Len(s) : Char(s, i) \in separators }

\* the least position of a non-empty set of positions
First(positions) == CHOOSE i \in positions : \A j \in positions : i <= j

RECURSIVE SplitFrom(_, _, _)
\* the pieces of s from position start on
SplitFrom(s, separators, start) ==
    IF SeparatorsFrom(s, separators, start) = {}
    THEN <<SubSeq(s, start, Len(s))>>
    ELSE <<SubSeq(s, start, First(SeparatorsFrom(s, separators, start)) - 1)>>
         \o SplitFrom(s, separators, First(SeparatorsFrom(s, separators, start)) + 1)

\* str::split: the pieces of s between separator characters, empty ones included
split(s, separators) == SplitFrom(s, separators, 1)

IsNotEmpty(s) == s # ""

\* str::split_whitespace
split_whitespace(s) == SelectSeq(split(s, WHITESPACE), IsNotEmpty)

RECURSIVE trim_start(_)
trim_start(s) ==
    IF s # "" /\ Char(s, 1) \in WHITESPACE THEN trim_start(Tail(s)) ELSE s

RECURSIVE trim_end(_)
trim_end(s) ==
    IF s # "" /\ Char(s, Len(s)) \in WHITESPACE
    THEN trim_end(SubSeq(s, 1, Len(s) - 1))
    ELSE s

\* str::trim
trim(s) == trim_end(trim_start(s))

AllNumeric(s) == \A i \in 1 .. Len(s) : is_numeric(Char(s, i))

RECURSIVE DecimalValue(_)
DecimalValue(digits) ==
    IF digits = "" THEN 0
    ELSE DecimalValue(SubSeq(digits, 1, Len(digits) - 1)) * 10
         + DigitValue(Char(digits, Len(digits)))

\* str::parse::<i128>: an optional sign and at least one decimal digit
parse_i128(s) ==
    LET signed == s # "" /\ Char(s, 1) \in {"+", "-"}
        digits == IF signed THEN Tail(s) ELSE s
    IN  IF digits = "" \/ ~AllNumeric(digits) THEN None
        ELSE IF signed /\ Char(s, 1) = "-" THEN Some(0 - DecimalValue(digits))
        ELSE Some(DecimalValue(digits))

\* HashMap::insert, HashMap::remove, HashMap::contains_key
insert(map, key, v) ==
    [k \in DOMAIN map \cup {key} |-> IF k = key THEN v ELSE map[k]]

remove(map, key) == [k \in DOMAIN map \ {key} |-> map[k]]

contains_key(map, key) == key \in DOMAIN map

\* usize arithmetic: a output out of range panics in a build with overflow
\* checks and wraps modulo 2^USIZE_BITS in a build without
USIZE == 2 ^ USIZE_BITS

usize_add(left, right) ==
    IF left + right < USIZE THEN Ok(left + right)
    ELSE IF overflow_checks THEN Panic
    ELSE Ok((left + right) % USIZE)

usize_sub(left, right) ==
    IF left >= right THEN Ok(left - right)
    ELSE IF overflow_checks THEN Panic
    ELSE Ok(left - right + USIZE)

usize_mul(left, right) ==
    IF left * right < USIZE THEN Ok(left * right)
    ELSE IF overflow_checks THEN Panic
    ELSE Ok((left * right) % USIZE)

\* usize division and remainder panic on a zero divisor in every build
usize_div(left, right) == IF right = 0 THEN Panic ELSE Ok(left \div right)

usize_rem(left, right) == IF right = 0 THEN Panic ELSE Ok(left % right)

TOKEN_BREAKER == {"+", "-", "*", "/", "%", "(", ")"}

RECURSIVE TokensFrom(_, _, _)
\* the loop of split_into_tokens at character ix, and its last element
TokensFrom(s, start, ix) ==
    IF ix > Len(s)
    THEN IF start <= Len(s) THEN <<SubSeq(s, start, Len(s))>> ELSE <<>>
    ELSE IF Char(s, ix) \in TOKEN_BREAKER
         THEN (IF start # ix THEN <<SubSeq(s, start, ix - 1)>> ELSE <<>>)
              \o <<Char(s, ix)>>
              \o TokensFrom(s, ix + 1, ix + 1)
         ELSE TokensFrom(s, start, ix + 1)

split_into_tokens(s) == TokensFrom(s, 1, 1)

get_variable_definition(line) ==
    LET v == split_whitespace(line)
    IN  IF Len(v) = 3 /\ v[2] = "equ" THEN Some(<<trim(v[1]), trim(v[3])>>)
        ELSE None

IsNoVariable(line) == get_variable_definition(line) = None

RECURSIVE InsertLabels(_, _, _)
\* the loop of get_labels over the lines that define no variable, from the
\* line of index ix on
InsertLabels(lines, ix, labels) ==
    IF ix >= Len(lines) THEN labels
    ELSE LET l == split(lines[ix + 1], {":"})
         IN  InsertLabels(lines, ix + 1,
                          IF Len(l) = 2 THEN insert(labels, trim(l[1]), ix)
                          ELSE labels)

\* labels indexed over all the lines, those that define a variable included
get_labels_AllLines(lines) == InsertLabels(lines, 0, <<>>)

get_labels(lines) == InsertLabels(SelectSeq(lines, IsNoVariable), 0, <<>>)

\* the tokens expand_variable copies to its output as they are
IsVerbatim(token, labels) ==
    \/ Len(token) = 1 /\ token \in TOKEN_BREAKER
    \/ AllNumeric(token)
    \/ contains_key(labels, token)

\* re-adding a removed variable is forgotten
Reinsert_Forgotten(variables, token, t) == variables

\* variables.insert(token, t) after the nested expansion
Reinsert(variables, token, t) == insert(variables, token, t)

RECURSIVE expand_variable(_, _, _)
RECURSIVE ExpandTokens(_, _, _, _, _)
RECURSIVE ExpandNested(_, _, _, _, _, _)

\* the rest of the loop of expand_variable once the nested call for the token
\* at position i has returned r
ExpandNested(tokens, i, labels, variables, output, r) ==
    IF r.kind # "Ok" THEN r
    ELSE ExpandTokens(tokens, i + 1, labels,
                      Reinsert(r.variables, tokens[i], variables[tokens[i]]),
                      output \o r.value)

\* the loop of expand_variable from the token at position i on; the record
\* returned holds the map `variables` as the call leaves it
ExpandTokens(tokens, i, labels, variables, output) ==
    IF i > Len(tokens)
    THEN [kind |-> "Ok", value |-> output, variables |-> variables]
    ELSE IF IsVerbatim(tokens[i], labels)
    THEN ExpandTokens(tokens, i + 1, labels, variables, output \o tokens[i])
    ELSE IF ~contains_key(variables, tokens[i])
    THEN [kind |-> "Err", value |-> "Invalid token " \o tokens[i],
          variables |-> variables]
    ELSE ExpandNested(tokens, i, labels, variables, output,
                      expand_variable(variables[tokens[i]], labels,
                                      remove(variables, tokens[i])))

expand_variable(v, labels, variables) ==
    ExpandTokens(split_into_tokens(v), 1, labels, variables, "")

RECURSIVE CollectVariables(_, _, _, _)
\* the first loop of get_variables: the map of the definitions and their names
\* in the order of the lines
CollectVariables(lines, i, variables, keys) ==
    IF i > Len(lines) THEN [variables |-> variables, keys |-> keys]
    ELSE LET definition == get_variable_definition(lines[i])
         IN  IF definition = None
             THEN CollectVariables(lines, i + 1, variables, keys)
             ELSE CollectVariables(lines, i + 1,
                                   insert(variables, definition[1][1], definition[1][2]),
                                   Append(keys, definition[1][1]))

RECURSIVE ExpandKeys(_, _, _, _, _)
RECURSIVE ExpandKey(_, _, _, _, _)

\* the expansion v of the key at position i is collected, or ends the
\* collection at the first Err
ExpandKey(keys, i, labels, r, v) ==
    IF v.kind # "Ok" THEN [kind |-> "Err", value |-> "e", variables |-> v.variables]
    ELSE ExpandKeys(keys, i + 1, labels, v.variables, insert(r, keys[i], v.value))

\* keys.iter().map(expand_variable).collect(), from the key at position i on
ExpandKeys(keys, i, labels, variables, r) ==
    IF i > Len(keys) THEN [kind |-> "Ok", value |-> r, variables |-> variables]
    ELSE ExpandKey(keys, i, labels, r,
                   expand_variable(variables[keys[i]], labels, variables))

\* the record returned holds, besides the Result, the local map `variables`
\* as the call leaves it
get_variables(lines, labels) ==
    LET collected == CollectVariables(lines, 1, <<>>, <<>>)
    IN  ExpandKeys(collected.keys, 1, labels, collected.variables, <<>>)

\* the table with an immediate B operand looked at before an immediate A operand
implicit_modifier_BFirst(op_code, a_operand, b_operand) ==
    CASE op_code = "Dat" -> "F"
      [] op_code \in {"Mov", "Cmp"} ->
            IF b_operand.mode = "Immediate" THEN "B"
            ELSE IF a_operand.mode = "Immediate" THEN "AB"
            ELSE "I"
      [] op_code \in {"Add", "Sub", "Mul", "Div", "Mod"} ->
            IF b_operand.mode = "Immediate" THEN "B"
            ELSE IF a_operand.mode = "Immediate" THEN "AB"
            ELSE "F"
      [] op_code = "Slt" ->
            IF a_operand.mode = "Immediate" THEN "AB" ELSE "B"
      [] OTHER -> "B"

implicit_modifier(op_code, a_operand, b_operand) ==
    CASE op_code = "Dat" -> "F"
      [] op_code \in {"Mov", "Cmp"} ->
            IF a_operand.mode = "Immediate" THEN "AB"
            ELSE IF b_operand.mode = "Immediate" THEN "B"
            ELSE "I"
      [] op_code \in {"Add", "Sub", "Mul", "Div", "Mod"} ->
            IF a_operand.mode = "Immediate" THEN "AB"
            ELSE IF b_operand.mode = "Immediate" THEN "B"
            ELSE "F"
      [] op_code = "Slt" ->
            IF a_operand.mode = "Immediate" THEN "AB" ELSE "B"
      [] OTHER -> "B"

\* the match of parse_op_code on the lower-cased opcode
OpCodeOf(s) ==
    CASE s = "dat" -> Some("Dat") [] s = "mov" -> Some("Mov")
      [] s = "add" -> Some("Add") [] s = "sub" -> Some("Sub")
      [] s = "mul" -> Some("Mul") [] s = "div" -> Some("Div")
      [] s = "mod" -> Some("Mod") [] s = "jmp" -> Some("Jmp")
      [] s = "jmz" -> Some("Jmz") [] s = "jmn" -> Some("Jmn")
      [] s = "djn" -> Some("Djn") [] s = "cmp" -> Some("Cmp")
      [] s = "slt" -> Some("Slt") [] s = "spl" -> Some("Spl")
      [] OTHER -> None

\* the match of parse_op_code on the lower-cased modifier
ModifierOf(s) ==
    CASE s = "a" -> Some("A") [] s = "b" -> Some("B")
      [] s = "ab" -> Some("AB") [] s = "ba" -> Some("BA")
      [] s = "f" -> Some("F") [] s = "x" -> Some("X")
      [] s = "i" -> Some("I")
      [] OTHER -> None

\* Ok of the pair (op_code, modifier), the modifier an Option
parse_op_code(s) ==
    LET tokens == split(s, {"."})
        op_code == OpCodeOf(to_lowercase(tokens[1]))
        modifier_string ==
            IF Len(tokens) = 2 THEN Some(to_lowercase(tokens[2])) ELSE None
    IN  IF op_code = None THEN Err("Invalid OpCode: " \o s)
        ELSE IF modifier_string = None THEN Ok(<<op_code[1], None>>)
        ELSE IF ModifierOf(modifier_string[1]) = None
        THEN Err("Invalid modifier: " \o modifier_string[1])
        ELSE Ok(<<op_code[1], ModifierOf(modifier_string[1])>>)

\* the remainder of the signed n by CORE_SIZE, truncated towards zero
RemCoreSize(n) == IF n >= 0 THEN n % CORE_SIZE ELSE 0 - ((0 - n) % CORE_SIZE)

to_core_size(n) == IF n > 0 THEN n ELSE RemCoreSize(n) + CORE_SIZE

ExpressionOperator_parse(s) ==
    CASE s = "+" -> Ok("Add")
      [] s = "-" -> Ok("Sub")
      [] s = "*" -> Ok("Mul")
      [] s = "/" -> Ok("Div")
      [] s = "%" -> Ok("Mod")
      [] OTHER -> Err("Invalid operand " \o s)

\* never takes precedence: every reduction is of the two leftmost values
takes_precedence_Never(self, other) == FALSE

takes_precedence(self, other) ==
    self \in {"Mul", "Div", "Mod"} /\ other \in {"Add", "Sub"}

\* an ExpressionToken is a record [token, value]
ExpressionToken_parse(s) ==
    IF parse_i128(s) # None
    THEN Ok([token |-> "Value", value |-> to_core_size(parse_i128(s)[1])])
    ELSE IF ExpressionOperator_parse(s).kind = "Ok"
    THEN Ok([token |-> "Operator", value |-> ExpressionOperator_parse(s).value])
    ELSE IF s = "(" THEN Ok([token |-> "OpenParenthesis", value |-> 0])
    ELSE IF s = ")" THEN Ok([token |-> "CloseParenthesis", value |-> 0])
    ELSE Err("Can't parse " \o s)

\* ExpressionTree::evaluate of a Node whose subtrees are the leaves left and
\* right: create_node leaves no other Node
evaluate(left, right, operand) ==
    CASE operand = "Add" -> usize_add(left, right)
      [] operand = "Sub" -> usize_sub(left, right)
      [] operand = "Mul" -> usize_mul(left, right)
      [] operand = "Div" -> usize_div(left, right)
      [] operand = "Mod" -> usize_rem(left, right)

\* the value of the Leaf that create_node returns
create_node(left, right, op) == evaluate(left, right, op)

process_final_elements_in_stack(value_stack, op_stack) ==
    IF Len(value_stack) >= 2 /\ Len(op_stack) >= 1
    THEN create_node(value_stack[1], value_stack[2], op_stack[Len(op_stack)])
    ELSE IF Len(value_stack) = 1 /\ op_stack = <<>> THEN Ok(value_stack[1])
    ELSE Err("WAT?")

\* the value a label token stands for on the line of index current_index
LabelOffset(labels, label, current_index) ==
    usize_sub(labels[label] + CORE_SIZE, current_index)

RECURSIVE operand_to_expression_tokens(_, _, _, _)
RECURSIVE AppendTokens(_, _, _, _, _, _)
RECURSIVE AppendToken(_, _, _, _, _, _, _)

\* the tokens v of the piece at position i are appended, or end the call
AppendToken(splitted, i, labels, variables, current_index, output, v) ==
    IF v.kind # "Ok" THEN v
    ELSE AppendTokens(splitted, i + 1, labels, variables, current_index,
                      output \o v.value)

\* the closure of operand_to_expression_tokens on the piece t
TokensOfPiece(t, labels, variables, current_index) ==
    IF ExpressionToken_parse(t).kind = "Ok"
    THEN Ok(<<ExpressionToken_parse(t).value>>)
    ELSE IF contains_key(labels, t)
    THEN IF LabelOffset(labels, t, current_index).kind # "Ok" THEN Panic
         ELSE Ok(<<[token |-> "Value",
                    value |-> LabelOffset(labels, t, current_index).value]>>)
    ELSE IF contains_key(variables, t)
    THEN operand_to_expression_tokens(variables[t], labels, variables, current_index)
    ELSE Err("Invalid token " \o t)

\* the loop of operand_to_expression_tokens from the piece at position i on
AppendTokens(splitted, i, labels, variables, current_index, output) ==
    IF i > Len(splitted) THEN Ok(output)
    ELSE AppendToken(splitted, i, labels, variables, current_index, output,
                     TokensOfPiece(splitted[i], labels, variables, current_index))

operand_to_expression_tokens(operand_value, labels, variables, current_index) ==
    AppendTokens(split_into_tokens(operand_value), 1, labels, variables,
                 current_index, <<>>)

\* the three stacks of evaluate_operand
Stacks(mega_stack, value_stack, op_stack) ==
    [mega_stack |-> mega_stack, value_stack |-> value_stack, op_stack |-> op_stack]

\* the arm of CloseParenthesis once the inner stacks are reduced to v
CloseParenthesis(st, v) ==
    IF v.kind # "Ok" THEN v
    ELSE IF st.mega_stack = <<>> THEN Panic
    ELSE Ok(Stacks(SubSeq(st.mega_stack, 1, Len(st.mega_stack) - 1),
                   Append(st.mega_stack[Len(st.mega_stack)].value_stack, v.value),
                   st.mega_stack[Len(st.mega_stack)].op_stack))

\* the match on the token in the loop of evaluate_operand
Shift(st, t) ==
    CASE t.token = "Value" ->
            Ok(Stacks(st.mega_stack, Append(st.value_stack, t.value), st.op_stack))
      [] t.token = "Operator" ->
            Ok(Stacks(st.mega_stack, st.value_stack, Append(st.op_stack, t.value)))
      [] t.token = "OpenParenthesis" ->
            Ok(Stacks(Append(st.mega_stack,
                             [value_stack |-> st.value_stack, op_stack |-> st.op_stack]),
                      <<>>, <<>>))
      [] t.token = "CloseParenthesis" ->
            CloseParenthesis(st, process_final_elements_in_stack(st.value_stack,
                                                                 st.op_stack))

\* the stacks once the node v has replaced the two rightmost values
ReduceRight(st, v) ==
    IF v.kind # "Ok" THEN v
    ELSE Ok(Stacks(st.mega_stack, <<st.value_stack[1], v.value>>, <<st.op_stack[1]>>))

\* the stacks once the node v has replaced the two leftmost values
ReduceLeft(st, v) ==
    IF v.kind # "Ok" THEN v
    ELSE Ok(Stacks(st.mega_stack, <<v.value, st.value_stack[3]>>, <<st.op_stack[2]>>))

\* the reduction that ends every iteration of the loop of evaluate_operand
Reduce(st) ==
    IF Len(st.op_stack) = 2 /\ Len(st.value_stack) = 3
    THEN IF takes_precedence(st.op_stack[2], st.op_stack[1])
         THEN ReduceRight(st, create_node(st.value_stack[2], st.value_stack[3],
                                          st.op_stack[2]))
         ELSE ReduceLeft(st, create_node(st.value_stack[1], st.value_stack[2],
                                         st.op_stack[1]))
    ELSE Ok(st)

RECURSIVE EvaluateTokens(_, _, _)
RECURSIVE AfterShift(_, _, _)
RECURSIVE AfterReduce(_, _, _)

AfterReduce(tokens, i, reduced) ==
    IF reduced.kind # "Ok" THEN reduced
    ELSE EvaluateTokens(tokens, i + 1, reduced.value)

AfterShift(tokens, i, shifted) ==
    IF shifted.kind # "Ok" THEN shifted
    ELSE AfterReduce(tokens, i, Reduce(shifted.value))

\* the loop of evaluate_operand from the token at position i on, and the
\* final reduction
EvaluateTokens(tokens, i, st) ==
    IF i > Len(tokens)
    THEN process_final_elements_in_stack(st.value_stack, st.op_stack)
    ELSE AfterShift(tokens, i, Shift(st, tokens[i]))

\* the last arm of the match of evaluate_operand, given the tokens
EvaluateExpression(tokens) ==
    IF tokens.kind # "Ok" THEN tokens
    ELSE EvaluateTokens(tokens.value, 1, Stacks(<<>>, <<>>, <<>>))

evaluate_operand(v, labels, variables, current_index) ==
    IF parse_i128(v) # None THEN Ok(to_core_size(parse_i128(v)[1]))
    ELSE IF contains_key(labels, v) THEN LabelOffset(labels, v, current_index)
    ELSE EvaluateExpression(
             operand_to_expression_tokens(v, labels, variables, current_index))

\* the mode a first character selects, and how many characters it takes
OperandModeOf(first_char) ==
    CASE first_char = "#" -> <<"Immediate", 1>>
      [] first_char = "$" -> <<"Direct", 1>>
      [] first_char = "@" -> <<"Indirect", 1>>
      [] first_char = "<" -> <<"Decrement", 1>>
      [] first_char = ">" -> <<"Increment", 1>>
      [] OTHER -> <<"Direct", 0>>

\* the operand built from the mode and the evaluated op_value
OperandOf(operand_mode, op_value) ==
    IF op_value.kind # "Ok" THEN op_value
    ELSE Ok(Operand(operand_mode, Numeric_new(op_value.value)))

parse_operand(s, current_index, labels, variables) ==
    IF s = "" THEN Panic
    ELSE OperandOf(OperandModeOf(Char(s, 1))[1],
                   evaluate_operand(SubSeq(s, OperandModeOf(Char(s, 1))[2] + 1, Len(s)),
                                    labels, variables, current_index))

\* the comment of a line removed, the line trimmed
StripComment(s) == trim(split(s, {";"})[1])

StripComments(rows) == [i \in 1 .. Len(rows) |-> StripComment(rows[i])]

\* the lines of parse: comments removed, empty rows removed
LinesOf(input) == SelectSeq(StripComments(split(input, {"\n", "\r"})), IsNotEmpty)

\* the text of a line after its label
AfterLabel(line) ==
    LET c == SelectSeq(split(line, {":"}), IsNotEmpty)
    IN  IF Len(c) = 2 THEN trim(c[2]) ELSE line

\* the instruction of the three tokens l, once its parts are parsed
InstructionOf(op, a_operand, b_operand) ==
    IF op.kind # "Ok" THEN op
    ELSE IF a_operand.kind # "Ok" THEN a_operand
    ELSE IF b_operand.kind # "Ok" THEN b_operand
    ELSE Ok(Instruction(op.value[1],
                        IF op.value[2] # None THEN op.value[2][1]
                        ELSE implicit_modifier(op.value[1], a_operand.value,
                                               b_operand.value),
                        a_operand.value, b_operand.value))

\* the body of the loop of parse for the text tl of the line of index ix
ParseLine(tl, ix, labels, variables) ==
    LET l == SelectSeq(split(tl, WHITESPACE \cup {","}), IsNotEmpty)
    IN  IF Len(l) # 3 THEN Err("Invalid line " \o tl)
        ELSE InstructionOf(parse_op_code(l[1]),
                           parse_operand(l[2], ix, labels, variables),
                           parse_operand(l[3], ix, labels, variables))

RECURSIVE ParseLines(_, _, _, _, _)
RECURSIVE PushInstruction(_, _, _, _, _, _)

PushInstruction(lines, ix, labels, variables, output, instruction) ==
    IF instruction.kind # "Ok" THEN instruction
    ELSE ParseLines(lines, ix + 1, labels, variables,
                    Append(output, instruction.value))

\* the loop of parse over the lines that define no variable, from the line of
\* index ix on
ParseLines(lines, ix, labels, variables, output) ==
    IF ix >= Len(lines) THEN Ok(output)
    ELSE PushInstruction(lines, ix, labels, variables, output,
                         ParseLine(AfterLabel(lines[ix + 1]), ix, labels, variables))

\* parse once the variables are read
ParseWith(lines, labels, variables) ==
    IF variables.kind # "Ok" THEN Err(variables.value)
    ELSE ParseLines(SelectSeq(lines, IsNoVariable), 0, labels, variables.value, <<>>)

\* parse once the labels are read
ParseLabelled(lines, labels) ==
    ParseWith(lines, labels, get_variables(lines, labels))

\* parse once the input is cut into lines
ParseSource(lines) == ParseLabelled(lines, get_labels(lines))

parse(input) == ParseSource(LinesOf(input))

----------------------------------------------------------------------------
(* The warriors the embedder loads.  Operand pointers are in range, as      *)
(* parse_operand builds them with Numeric::from; every warrior fits the     *)
(* slot CORE_SIZE / N of its game.                                          *)

Ins(op, m, a_mode, a_pointer, b_mode, b_pointer) ==
    Instruction(op, m, Operand(a_mode, a_pointer), Operand(b_mode, b_pointer))

PointerValues == {0, 1, 2, CORE_SIZE - 1}

\* opcodes whose behaviour depends on the modifier
ModifierOps == OpCode \ {"Dat", "Jmp", "Spl"}

\* one-instruction warriors exercising every opcode under every modifier
OpcodeWarriors ==
    { <<Ins(op, m, am, ap, bm, bp)>> :
        op \in ModifierOps, m \in Modifier,
        am \in {"Immediate", "Direct"}, ap \in PointerValues,
        bm \in {"Immediate", "Direct"}, bp \in PointerValues }

\* one-instruction warriors exercising every pair of addressing modes
ModeWarriors ==
    { <<Ins(om[1], om[2], am, ap, bm, bp)>> :
        om \in {<<"Dat", "F">>, <<"Jmp", "B">>, <<"Spl", "B">>, <<"Mov", "I">>},
        am \in OperandMode, ap \in {0, 1, CORE_SIZE - 1},
        bm \in OperandMode, bp \in {0, 1, CORE_SIZE - 1} }

\* two-instruction warriors that keep forking
SplitWarriors ==
    { <<Ins("Spl", "B", "Direct", 0, "Direct", 0),
        Ins("Jmp", "B", "Direct", CORE_SIZE - 1, "Direct", 0)>>,
      <<Ins("Spl", "B", "Direct", 0, "Direct", 0),
        Ins("Spl", "B", "Direct", CORE_SIZE - 1, "Direct", 0)>>,
      <<Ins("Spl", "B", "Direct", 1, "Decrement", 1),
        Ins("Spl", "B", "Increment", 0, "Direct", 0)>> }

Dwarf == <<Ins("Dat", "F", "Direct", 0, "Direct", 0)>>

Loop == <<Ins("Jmp", "B", "Direct", 0, "Direct", 0)>>

Imp == <<Ins("Mov", "I", "Direct", 0, "Direct", 1)>>

Fork == <<Ins("Spl", "B", "Direct", 0, "Direct", 0)>>

\* hand-written two-warrior games: the imp against a single DAT, and the
\* forking warriors against a dying and a looping opponent
SmallGames ==
    { <<Imp, Dwarf>> }
    \cup { <<w0, w1>> : w0 \in SplitWarriors, w1 \in {Dwarf, Loop} }

\* every three-warrior game of four one-instruction warriors
ThreeWarriorGames ==
    { <<w0, w1, w2>> : w0 \in {Dwarf, Loop, Imp, Fork},
                       w1 \in {Dwarf, Loop, Imp, Fork},
                       w2 \in {Dwarf, Loop, Imp, Fork} }

Games ==
    SmallGames
    \cup ThreeWarriorGames
    \cup { <<w0, Dwarf>> : w0 \in OpcodeWarriors }
    \cup { <<w0, w1>> : w0 \in ModeWarriors, w1 \in {Dwarf, Loop} }

----------------------------------------------------------------------------
(* Initial state: a Vm constructed by Vm::new, no play call made yet *)

\* no function is called on its own: the embedder only runs the machine
NoCall ==
    /\ call = [function |-> "none", args |-> <<>>, about |-> [family |-> "none"]]
    /\ ret = None
    /\ overflow_checks = TRUE

NoExec(c) ==
    [core |-> c, pcs |-> <<>>, events |-> <<>>, panic |-> FALSE,
     instruction_pointer |-> 0, operation |-> EmptyCell, warrior_id |-> 0,
     queue_len |-> 0, core0 |-> c,
     a_fold |-> [address |-> 0, core |-> c, events |-> <<>>],
     b_fold |-> [address |-> 0, core |-> c, events |-> <<>>],
     a_instruction |-> EmptyCell, b_instruction |-> EmptyCell,
     op_events |-> <<>>]

InitWith(defs) ==
    LET vm == Vm_new(defs)
    IN  /\ vm.ok
        /\ core = vm.core
        /\ warriors_definitions = vm.warriors_definitions
        /\ warriors_queues = vm.warriors_queues
        /\ round = vm.round
        /\ next_warrior_id = vm.next_warrior_id
        /\ pc = "idle"
        /\ tick_count = 0
        /\ ticks_played = 0
        /\ result = None
        /\ panicked = FALSE
        /\ events = <<>>
        /\ exec = NoExec(vm.core)
        /\ executed = [w \in 0 .. (Len(defs) - 1) |-> 0]
        /\ last_step = "new"
        /\ iterations = 0
        /\ terminated_programs = <<>>
        /\ NoCall

Init == \E defs \in Games : InitWith(defs)

----------------------------------------------------------------------------
(* vms.rs: Vm::play *)

\* the embedder calls play(n)
PlayCall(n) ==
    /\ pc = "idle"
    /\ ~panicked
    /\ pc' = "loop"
    /\ tick_count' = n
    /\ ticks_played' = 0
    /\ events' = <<>>
    /\ last_step' = "call"
    /\ iterations' = 0
    /\ UNCHANGED <<core, warriors_definitions, warriors_queues, round,
                   next_warrior_id, result, panicked, exec, executed,
                   terminated_programs, call, ret, overflow_checks>>

\* the condition of a loop that runs once more when the ticks are used up
LoopCondition_Inclusive == Len(warriors_queues) > 1 /\ ticks_played <= tick_count

\* the condition of the while loop
LoopCondition == Len(warriors_queues) > 1 /\ ticks_played < tick_count

\* wrap that leaves the round as it is
Wrap_SameRound(c, n, rnd) ==
    IF c = n THEN [next_warrior_id |-> 0, round |-> rnd]
    ELSE [next_warrior_id |-> c, round |-> rnd]

\* wrap taken only once the cursor has passed the end of the list
Wrap_Late(c, n, rnd) ==
    IF c > n THEN [next_warrior_id |-> 0, round |-> rnd + 1]
    ELSE [next_warrior_id |-> c, round |-> rnd]

\* wrap taken one position early
Wrap_OffByOne(c, n, rnd) ==
    IF c >= n - 1 THEN [next_warrior_id |-> 0, round |-> rnd + 1]
    ELSE [next_warrior_id |-> c, round |-> rnd]

\* the wrap at the end of every iteration: the cursor and round that result
\* from cursor c over a list of length n
Wrap(c, n, rnd) ==
    IF c = n THEN [next_warrior_id |-> 0, round |-> rnd + 1]
    ELSE [next_warrior_id |-> c, round |-> rnd]

\* Jump events whose origin and destination are exchanged
JumpEvents_Swapped(pcs, moved_from, warrior_id, rnd) ==
    [k \in 1 .. Len(pcs) |->
        VmEvent("Jump", Some(pcs[k]), Some(moved_from), warrior_id, rnd)]

\* the Jump events notified for the PCs that execute returned, in their order
JumpEvents(pcs, moved_from, warrior_id, rnd) ==
    [k \in 1 .. Len(pcs) |->
        VmEvent("Jump", Some(moved_from), Some(pcs[k]), warrior_id, rnd)]

\* the rest of an executing iteration that pushes the returned PCs at the
\* front of the queue
PushAndAdvance_Front(w, popped, e) ==
    /\ ticks_played' = ticks_played + 1
    /\ exec' = e
    /\ core' = e.core
    /\ executed' = [executed EXCEPT ![e.warrior_id] = @ + 1]
    /\ last_step' = "execute"
    /\ iterations' = iterations + 1
    /\ IF e.panic
       THEN /\ panicked' = TRUE
            /\ pc' = "panic"
            /\ events' = e.events
            /\ warriors_queues' =
                   [warriors_queues EXCEPT ![w].instruction_queue = popped]
            /\ UNCHANGED <<next_warrior_id, round>>
       ELSE /\ events' = e.events
                         \o JumpEvents(e.pcs, e.instruction_pointer, e.warrior_id, round)
            /\ warriors_queues' =
                   [warriors_queues EXCEPT ![w].instruction_queue = e.pcs \o popped]
            /\ next_warrior_id' =
                   Wrap(next_warrior_id + 1, Len(warriors_queues), round).next_warrior_id
            /\ round' = Wrap(next_warrior_id + 1, Len(warriors_queues), round).round
            /\ UNCHANGED <<panicked, pc>>

\* the rest of an executing iteration, given the record e that execute
\* returned for the PC popped from the queue at list position w
PushAndAdvance(w, popped, e) ==
    /\ ticks_played' = ticks_played + 1
    /\ exec' = e
    /\ core' = e.core
    /\ executed' = [executed EXCEPT ![e.warrior_id] = @ + 1]
    /\ last_step' = "execute"
    /\ iterations' = iterations + 1
    /\ IF e.panic
       THEN /\ panicked' = TRUE
            /\ pc' = "panic"
            /\ events' = e.events
            /\ warriors_queues' =
                   [warriors_queues EXCEPT ![w].instruction_queue = popped]
            /\ UNCHANGED <<next_warrior_id, round>>
       ELSE /\ events' = e.events
                         \o JumpEvents(e.pcs, e.instruction_pointer, e.warrior_id, round)
            /\ warriors_queues' =
                   [warriors_queues EXCEPT ![w].instruction_queue = popped \o e.pcs]
            /\ next_warrior_id' =
                   Wrap(next_warrior_id + 1, Len(warriors_queues), round).next_warrior_id
            /\ round' = Wrap(next_warrior_id + 1, Len(warriors_queues), round).round
            /\ UNCHANGED <<panicked, pc>>

\* execute called with the position of the runtime in the list as warrior_id
PopAndExecute_Position(w, instruction_pointer, popped) ==
    PushAndAdvance(w, popped,
                   execute(core, Len(popped), core[instruction_pointer],
                           instruction_pointer, w - 1, round))

\* pop_front on the queue at list position w, then execute
PopAndExecute(w, instruction_pointer, popped) ==
    PushAndAdvance(w, popped,
                   execute(core, Len(popped), core[instruction_pointer],
                           instruction_pointer, warriors_queues[w].warrior_id, round))

\* an iteration that pops a PC and executes the instruction there
TickExecute ==
    /\ pc = "loop"
    /\ LoopCondition
    /\ round < MaxRound
    /\ warriors_queues[next_warrior_id + 1].instruction_queue # <<>>
    /\ PopAndExecute(next_warrior_id + 1,
                     Head(warriors_queues[next_warrior_id + 1].instruction_queue),
                     Tail(warriors_queues[next_warrior_id + 1].instruction_queue))
    /\ UNCHANGED <<warriors_definitions, tick_count, result, terminated_programs,
                   call, ret, overflow_checks>>

\* removal of the last runtime of the list instead of the one at position w
RemoveAt_Last(queues, w) == SubSeq(queues, 1, Len(queues) - 1)

\* Vec::remove: the list without its element at position w (1-based)
RemoveAt(queues, w) ==
    SubSeq(queues, 1, w - 1) \o SubSeq(queues, w + 1, Len(queues))

\* an iteration that finds the queue at the cursor empty and removes the warrior
TickRemove ==
    /\ pc = "loop"
    /\ LoopCondition
    /\ round < MaxRound
    /\ warriors_queues[next_warrior_id + 1].instruction_queue = <<>>
    /\ LET w == next_warrior_id + 1
           terminated_warrior == warriors_queues[w]
           remaining == RemoveAt(warriors_queues, w)
           wrapped == Wrap(next_warrior_id, Len(remaining), round)
       IN  /\ warriors_queues' = remaining
           /\ events' = <<VmEvent("TerminatedProgram", None, None,
                                  terminated_warrior.warrior_id, round)>>
           /\ terminated_programs' =
                  Append(terminated_programs, terminated_warrior.warrior_id)
           /\ next_warrior_id' = wrapped.next_warrior_id
           /\ round' = wrapped.round
    /\ last_step' = "remove"
    /\ iterations' = iterations + 1
    /\ UNCHANGED <<core, warriors_definitions, pc, tick_count, ticks_played,
                   result, panicked, exec, executed, call, ret, overflow_checks>>

\* the loop has ended: play returns the survivor, if the list holds one runtime
PlayReturn ==
    /\ pc = "loop"
    /\ ~LoopCondition
    /\ result' = IF Len(warriors_queues) = 1
                 THEN Some(warriors_queues[1].warrior_id)
                 ELSE None
    /\ pc' = "idle"
    /\ tick_count' = 0
    /\ ticks_played' = 0
    /\ events' = <<>>
    /\ last_step' = "return"
    /\ UNCHANGED <<core, warriors_definitions, warriors_queues, round,
                   next_warrior_id, panicked, exec, executed, iterations,
                   terminated_programs, call, ret, overflow_checks>>

Next ==
    \/ \E n \in 0 .. MaxTicks : PlayCall(n)
    \/ TickExecute
    \/ TickRemove
    \/ PlayReturn

Spec == Init /\ [][Next]_vars

----------------------------------------------------------------------------
(* Construction as a step: the embedder holds a list of warrior definitions *)
(* of any length and any sizes, calls Vm::new on it and, if a Vm is         *)
(* returned, plays.                                                         *)

\* n warriors without instructions, for every n around the accepted counts
CountGames == { [k \in 1 .. n |-> <<>>] : n \in 0 .. 51 }

\* a warrior of n instructions, each telling its warrior and its position
SizedWarrior(tag, n) ==
    [i \in 1 .. n |-> Ins("Jmp", "B", "Direct", tag, "Direct", (i - 1) % CORE_SIZE)]

\* two and three warriors of every size up to the core, fitting or not
SizedGames ==
    { <<SizedWarrior(0, a), SizedWarrior(1, b)>> :
        a \in 0 .. CORE_SIZE, b \in 0 .. CORE_SIZE }
    \cup { <<SizedWarrior(0, a), SizedWarrior(1, b), SizedWarrior(2, c)>> :
        a \in 0 .. 3, b \in 0 .. 3, c \in 0 .. 3 }

NewGames == CountGames \cup SizedGames \cup SmallGames

\* before Vm::new: the definitions are read, no Vm exists
NewInit ==
    /\ warriors_definitions \in NewGames
    /\ core = <<>>
    /\ warriors_queues = <<>>
    /\ round = 0
    /\ next_warrior_id = 0
    /\ pc = "start"
    /\ tick_count = 0
    /\ ticks_played = 0
    /\ result = None
    /\ panicked = FALSE
    /\ events = <<>>
    /\ exec = NoExec(<<>>)
    /\ executed = <<>>
    /\ last_step = "start"
    /\ iterations = 0
    /\ terminated_programs = <<>>
    /\ NoCall

\* the state Vm::new leaves: the Vm it returned, or none after Err or a panic
NewOutcome(vm) ==
    /\ last_step' = "new"
    /\ IF vm.ok
       THEN /\ core' = vm.core
            /\ warriors_queues' = vm.warriors_queues
            /\ round' = vm.round
            /\ next_warrior_id' = vm.next_warrior_id
            /\ exec' = NoExec(vm.core)
            /\ executed' = [w \in 0 .. (Len(vm.warriors_definitions) - 1) |-> 0]
            /\ pc' = "idle"
            /\ UNCHANGED panicked
       ELSE /\ pc' = IF vm.panic THEN "panic" ELSE "error"
            /\ panicked' = vm.panic
            /\ UNCHANGED <<core, warriors_queues, round, next_warrior_id, exec,
                           executed>>
    /\ UNCHANGED <<warriors_definitions, tick_count, ticks_played, result, events,
                   iterations, terminated_programs, call, ret, overflow_checks>>

\* the embedder calls Vm::new(warriors_definitions)
New ==
    /\ pc = "start"
    /\ NewOutcome(Vm_new(warriors_definitions))

NewNext ==
    \/ New
    \/ \E n \in 0 .. MaxTicks : PlayCall(n)
    \/ TickExecute
    \/ TickRemove
    \/ PlayReturn

NewSpec == NewInit /\ [][NewNext]_vars

----------------------------------------------------------------------------
(* The functions of parser.rs and numeric.rs called on their own, the way   *)
(* the tests of parser.rs call them and the embedder reads a warrior        *)
(* (main.rs, read_warrior).  A state holds one call and, once the call has  *)
(* returned, what it returned.  The field `about` of a call tells how its   *)
(* arguments were put together.                                             *)

Call(function, args, about) ==
    [function |-> function, args |-> args, about |-> about]

\* subtraction, decrement and construction of the numeric, on and past the
\* values of a core
NumericCalls ==
    { Call("Numeric::sub", <<a, b>>, [family |-> "numeric"]) :
        a \in 0 .. (CORE_SIZE - 1), b \in 0 .. (CORE_SIZE - 1) }
    \cup { Call("Numeric::sub_assign", <<a, rhs>>, [family |-> "numeric"]) :
        a \in 0 .. (CORE_SIZE - 1), rhs \in 0 .. CORE_SIZE }
    \cup { Call("Numeric::new", <<n>>, [family |-> "numeric"]) :
        n \in 0 .. (2 * CORE_SIZE + 1) }

\* implicit_modifier on every opcode and pair of modes
ModifierCalls ==
    { Call("implicit_modifier", <<op, Operand(am, ap), Operand(bm, bp)>>,
           [family |-> "modifier"]) :
        op \in OpCode, am \in OperandMode, bm \in OperandMode,
        ap \in {0, CORE_SIZE - 1}, bp \in {0, 1} }

ModeText(mode) ==
    CASE mode = "Immediate" -> "#"
      [] mode = "Direct" -> "$"
      [] mode = "Indirect" -> "@"
      [] mode = "Decrement" -> "<"
      [] mode = "Increment" -> ">"

\* how the mode of an operand is written: its character, or nothing for Direct
ModeTexts ==
    { [mode |-> m, text |-> ModeText(m)] : m \in OperandMode }
    \cup { [mode |-> "Direct", text |-> ""] }

\* how the modifier of an instruction is written: after a dot, or not at all
ModifierTexts ==
    { [modifier |-> Some(m), text |-> "." \o m] : m \in Modifier }
    \cup { [modifier |-> None, text |-> ""] }

LineText(op, m, a, b) ==
    op \o m.text \o " " \o a.text \o "1" \o ", " \o b.text \o "2"

\* parse on one instruction: every opcode, with and without a modifier, every
\* way of writing the two modes
LineCalls ==
    { Call("parse", <<LineText(op, m, a, b)>>,
           [family |-> "line", op |-> op, modifier |-> m.modifier,
            a_mode |-> a.mode, b_mode |-> b.mode]) :
        op \in OpCode, m \in ModifierTexts, a \in ModeTexts, b \in ModeTexts }

LineKinds ==
    {"equ", "comment", "blank", "plain", "labelled", "jump", "negative", "variable"}

KindText(kind) ==
    CASE kind = "equ" -> "  step equ 3"
      [] kind = "comment" -> "; a comment"
      [] kind = "blank" -> "   "
      [] kind = "plain" -> "  dat 0, 0 ; data"
      [] kind = "labelled" -> "here:add #1, 2"
      [] kind = "jump" -> "  jmp here, 0"
      [] kind = "negative" -> "  mov -1, <-3"
      [] kind = "variable" -> "  spl 0, step ; uses the variable"

RECURSIVE JoinLines(_)
JoinLines(rows) ==
    IF rows = <<>> THEN ""
    ELSE IF Len(rows) = 1 THEN rows[1]
    ELSE rows[1] \o "\n" \o JoinLines(Tail(rows))

ProgramText(kinds) == JoinLines([i \in 1 .. Len(kinds) |-> KindText(kinds[i])])

IsLabelled(kind) == kind = "labelled"

\* every program of up to MaxLines lines of these kinds with at most one label
Programs ==
    { kinds \in UNION { [1 .. n -> LineKinds] : n \in 1 .. MaxLines } :
        Len(SelectSeq(kinds, IsLabelled)) <= 1 }

ProgramCalls ==
    { Call("parse", <<ProgramText(kinds)>>, [family |-> "program", kinds |-> kinds]) :
        kinds \in Programs }

\* the program of tests::test_parse
TestProgram ==
    JoinLines(<<"",
                "            lozzero equ 66",
                "            mov 6, -1 ; i babbari",
                "        ;borgo pio",
                "            spl 6, <-3",
                "            spl 7, <-4",
                "    gaga:add #4, 3",
                "            mov 2, @2",
                "            jmp gaga, 0",
                "            dat <3, <3",
                "            spl 0, <-9",
                "            dat <-10, <1",
                "            spl imp, 0",
                "            mov 0, -20,",
                "            mov 1, -22,",
                "            jmp -23, 0",
                "    imp: spl 0, lozzero",
                "            mov 0, 1">>)

\* a variable defined as the number n and used as an operand
VariableCalls ==
    { Call("parse", <<"step equ " \o ToString(n) \o "\r\n" \o "spl 0, step">>,
           [family |-> "variable", n |-> n]) : n \in 0 .. (2 * CORE_SIZE + 1) }
    \cup { Call("parse", <<TestProgram>>, [family |-> "test_parse"]) }

\* the operand -k
NegativeCalls ==
    { Call("parse_operand", <<"-" \o ToString(k), 0, <<>>, <<>>>>,
           [family |-> "negative", k |-> k]) : k \in 0 .. (2 * CORE_SIZE) }

\* an expression: its text, its value under the standard rules and the level
\* of its outermost operator (0 for + and -, 1 for * / %, 2 for a literal or
\* a parenthesis)
Literals ==
    { [text |-> ToString(n), value |-> n, level |-> 2] : n \in 0 .. (CORE_SIZE - 1) }

Operators ==
    { [op |-> "Add", text |-> "+", level |-> 0],
      [op |-> "Sub", text |-> "-", level |-> 0],
      [op |-> "Mul", text |-> "*", level |-> 1],
      [op |-> "Div", text |-> "/", level |-> 1],
      [op |-> "Mod", text |-> "%", level |-> 1] }

ValueOf(op, l, r) ==
    CASE op = "Add" -> l + r
      [] op = "Sub" -> l - r
      [] op = "Mul" -> l * r
      [] op = "Div" -> l \div r
      [] op = "Mod" -> l % r

Binary(l, o, r) ==
    [text |-> l.text \o o.text \o r.text,
     value |-> ValueOf(o.op, l.value, r.value),
     level |-> o.level]

Parenthesised(e) == [text |-> "(" \o e.text \o ")", value |-> e.value, level |-> 2]

\* l o r is read as the operator o applied to l and r, and divides by no zero
\* (nor divides a negative number, where the rules of rounding differ)
WellFormed(l, o, r) ==
    /\ l.level >= o.level
    /\ r.level > o.level
    /\ o.op \in {"Div", "Mod"} => (r.value > 0 /\ l.value >= 0)

Combine(left, right) ==
    { Binary(t[1], t[2], t[3]) :
        t \in { u \in left \X Operators \X right : WellFormed(u[1], u[2], u[3]) } }

TwoOperands == Combine(Literals, Literals)

Parentheses == { Parenthesised(e) : e \in TwoOperands }

ThreeOperands ==
    Combine(TwoOperands \cup Parentheses, Literals)
    \cup Combine(Literals, TwoOperands \cup Parentheses)

Nested ==
    Combine({ Parenthesised(e) : e \in Parentheses }, { e \in Literals : e.value = 1 })
    \cup Combine({ e \in Literals : e.value = 1 },
                 { Parenthesised(Binary(l, o, p)) :
                     l \in { e \in Literals : e.value = 1 },
                     o \in { x \in Operators : x.op \in {"Add", "Mul"} },
                     p \in Parentheses })

Expressions == Literals \cup TwoOperands \cup Parentheses \cup ThreeOperands \cup Nested

ExpressionCalls ==
    { Call("parse_operand", <<e.text, 0, <<>>, <<>>>>,
           [family |-> "expression", value |-> e.value]) : e \in Expressions }

\* the expressions of the tests of parser.rs
TestCalls ==
    { Call("evaluate_operand", <<text, <<>>, <<>>, 0>>, [family |-> "test"]) :
        text \in {"99", "10*12+7", "5+10*12+7", "5+10*12+7/2+12*4-1*4*4*2",
                  "(5+10)*(12+7)/(2+12)*(4-1)*4*4*2",
                  "((1+5)*(1+2*(3+2)))*(12+7)/(2+12)*(4-1)*4*4+1*2",
                  "((1+5)+(1+2*(3+2)))*(12+7)/(2+12)*(4-1)*4*4+1*2"} }

\* equ definitions of the variables x, y and z: the right-hand side of each is
\* a number, a label, a variable or the sum of two variables
Names == {"x", "y", "z"}

NameOrder == <<"x", "y", "z">>

RightHandSides ==
    {<<"7">>, <<"here">>}
    \cup { <<n>> : n \in Names }
    \cup { <<n, m>> : n \in Names, m \in Names }

RhsText(tokens) ==
    IF Len(tokens) = 1 THEN tokens[1] ELSE tokens[1] \o "+" \o tokens[2]

Definitions == UNION { [defined -> RightHandSides] : defined \in (SUBSET Names) \ {{}} }

DefinitionLines(rhs) ==
    LET names == SelectSeq(NameOrder, LAMBDA n : n \in DOMAIN rhs)
    IN  [i \in 1 .. Len(names) |-> names[i] \o " equ " \o RhsText(rhs[names[i]])]

DefinitionCalls ==
    { Call("get_variables", <<DefinitionLines(rhs), insert(<<>>, "here", 0)>>,
           [family |-> "definitions", rhs |-> rhs]) : rhs \in Definitions }

\* the same definitions in a source text, for those of at most two variables
DefinitionParseCalls ==
    { Call("parse", <<JoinLines(DefinitionLines(rhs) \o <<"here: dat 0, 0">>)>>,
           [family |-> "definitions", rhs |-> rhs]) :
        rhs \in { d \in Definitions : DOMAIN d \subseteq {"x", "y"} } }

\* lines that are no instruction, by what is wrong with them
Malformed ==
    { [cause |-> "opcode", text |-> "xyz 0, 1"],
      [cause |-> "opcode", text |-> "mo.v 0, 1"],
      [cause |-> "modifier", text |-> "mov.q 0, 1"],
      [cause |-> "modifier", text |-> "mov. 0, 1"],
      [cause |-> "modifier", text |-> "mov.abc 0, 1"],
      [cause |-> "token count", text |-> "mov"],
      [cause |-> "token count", text |-> "mov 0"],
      [cause |-> "token count", text |-> "mov 0, 1, 2"],
      [cause |-> "identifier", text |-> "mov foo, 1"],
      [cause |-> "identifier", text |-> "jmp 0, bar+1"],
      [cause |-> "expression", text |-> "mov +, 0"],
      [cause |-> "expression", text |-> "mov 1+, 0"],
      [cause |-> "expression", text |-> "mov (), 0"],
      [cause |-> "expression", text |-> "mov ), 0"],
      [cause |-> "expression", text |-> "mov 1), 0"],
      [cause |-> "expression", text |-> "mov 2*(1+2)), 0"],
      [cause |-> "expression", text |-> "mov 0, 1++2"],
      [cause |-> "expression", text |-> "mov 0, 1+*2"],
      [cause |-> "expression", text |-> "mov 0, *2"] }

\* a malformed line alone, and after a well-formed one
MalformedCalls ==
    { Call("parse", <<before \o m.text>>, [family |-> "malformed", cause |-> m.cause]) :
        m \in Malformed, before \in {"", "dat 0, 0\n"} }

\* no virtual machine is constructed
NoVm ==
    /\ warriors_definitions = <<>>
    /\ core = <<>>
    /\ warriors_queues = <<>>
    /\ round = 0
    /\ next_warrior_id = 0
    /\ pc = "none"
    /\ tick_count = 0
    /\ ticks_played = 0
    /\ result = None
    /\ panicked = FALSE
    /\ events = <<>>
    /\ exec = NoExec(<<>>)
    /\ executed = <<>>
    /\ last_step = "none"
    /\ iterations = 0
    /\ terminated_programs = <<>>

CallInit ==
    /\ NoVm
    /\ ret = None
    /\ \/ /\ overflow_checks = TRUE
          /\ \/ call \in NumericCalls
             \/ call \in ModifierCalls
             \/ call \in LineCalls
             \/ call \in ProgramCalls
             \/ call \in VariableCalls
             \/ call \in NegativeCalls
             \/ call \in DefinitionCalls
             \/ call \in DefinitionParseCalls
       \/ /\ overflow_checks \in BOOLEAN
          /\ \/ call \in ExpressionCalls
             \/ call \in TestCalls
             \/ call \in MalformedCalls

Call_parse ==
    /\ call.function = "parse"
    /\ ret = None
    /\ ret' = Some(parse(call.args[1]))
    /\ UNCHANGED <<call, overflow_checks>>
    /\ UNCHANGED vm_vars

Call_parse_operand ==
    /\ call.function = "parse_operand"
    /\ ret = None
    /\ ret' = Some(parse_operand(call.args[1], call.args[2], call.args[3], call.args[4]))
    /\ UNCHANGED <<call, overflow_checks>>
    /\ UNCHANGED vm_vars

Call_evaluate_operand ==
    /\ call.function = "evaluate_operand"
    /\ ret = None
    /\ ret' = Some(evaluate_operand(call.args[1], call.args[2], call.args[3],
                                    call.args[4]))
    /\ UNCHANGED <<call, overflow_checks>>
    /\ UNCHANGED vm_vars

Call_get_variables ==
    /\ call.function = "get_variables"
    /\ ret = None
    /\ ret' = Some(get_variables(call.args[1], call.args[2]))
    /\ UNCHANGED <<call, overflow_checks>>
    /\ UNCHANGED vm_vars

Call_implicit_modifier ==
    /\ call.function = "implicit_modifier"
    /\ ret = None
    /\ ret' = Some(implicit_modifier(call.args[1], call.args[2], call.args[3]))
    /\ UNCHANGED <<call, overflow_checks>>
    /\ UNCHANGED vm_vars

Call_Numeric_sub ==
    /\ call.function = "Numeric::sub"
    /\ ret = None
    /\ ret' = Some(Numeric_sub(call.args[1], call.args[2]))
    /\ UNCHANGED <<call, overflow_checks>>
    /\ UNCHANGED vm_vars

Call_Numeric_sub_assign ==
    /\ call.function = "Numeric::sub_assign"
    /\ ret = None
    /\ ret' = Some(Numeric_sub_assign(call.args[1], call.args[2]))
    /\ UNCHANGED <<call, overflow_checks>>
    /\ UNCHANGED vm_vars

Call_Numeric_new ==
    /\ call.function = "Numeric::new"
    /\ ret = None
    /\ ret' = Some(Numeric_new(call.args[1]))
    /\ UNCHANGED <<call, overflow_checks>>
    /\ UNCHANGED vm_vars

CallNext ==
    \/ Call_parse
    \/ Call_parse_operand
    \/ Call_evaluate_operand
    \/ Call_get_variables
    \/ Call_implicit_modifier
    \/ Call_Numeric_sub
    \/ Call_Numeric_sub_assign
    \/ Call_Numeric_new

CallSpec == CallInit /\ [][CallNext]_vars

----------------------------------------------------------------------------
(* Properties *)

\* the runtime of warrior id, as a set: empty once the warrior is removed
Runtime(id) ==
    { warriors_queues[i] : i \in { j \in 1 .. Len(warriors_queues) :
                                     warriors_queues[j].warrior_id = id } }

AllQueues == { warriors_queues[i].instruction_queue : i \in 1 .. Len(warriors_queues) }

\* C1: scheduler fairness.  Between play iterations every warrior still in the
\* runtime list has executed round or round + 1 instructions since
\* construction, and exactly round whenever the cursor stands at 0 (the
\* cursor has just wrapped), whatever its thread count and however many
\* warriors were removed before it in the list.
C1_Fairness ==
    ~panicked =>
        \A i \in 1 .. Len(warriors_queues) :
            LET n == executed[warriors_queues[i].warrior_id]
            IN  /\ n \in {round, round + 1}
                /\ next_warrior_id = 0 => n = round

\* C1 witness: the cursor has wrapped into round 2 or later, and a warrior
\* holding several threads stands in the list after a removed warrior.
C1_Witness ==
    /\ ~panicked
    /\ next_warrior_id = 0
    /\ round >= 2
    /\ \E i \in 1 .. Len(warriors_queues) :
          /\ warriors_queues[i].warrior_id > i - 1
          /\ Len(warriors_queues[i].instruction_queue) >= 2
          /\ executed[warriors_queues[i].warrior_id] = round

\* C2: whenever play returns a warrior, that warrior is the only runtime left
\* and its PC queue is not empty.
C2_ReturnedWarriorIsAlive ==
    (last_step = "return" /\ result # None) =>
        /\ Len(warriors_queues) = 1
        /\ warriors_queues[1].warrior_id = result[1]
        /\ warriors_queues[1].instruction_queue # <<>>

\* C3: play never panics: no instruction, DIV and MOD under any modifier
\* included, divides by a zero pointer value.
C3_NeverPanics == ~panicked

\* C5: every PC stored in every warrior's queue is in [0, CORE_SIZE).
C5_PcInRange ==
    \A q \in AllQueues : \A k \in 1 .. Len(q) : q[k] \in 0 .. (CORE_SIZE - 1)

\* C5 witness: an instruction at the last core address has just continued to
\* address 0.
C5_Witness ==
    /\ last_step = "execute"
    /\ exec.instruction_pointer = CORE_SIZE - 1
    /\ exec.pcs = <<0>>
    /\ \E q \in AllQueues : Len(q) >= 1 /\ q[Len(q)] = 0

\* C6: every a_operand and b_operand pointer of every core cell is in
\* [0, CORE_SIZE).
C6_PointersInRange ==
    \A i \in 0 .. (CORE_SIZE - 1) :
        /\ core[i].a_operand.pointer \in 0 .. (CORE_SIZE - 1)
        /\ core[i].b_operand.pointer \in 0 .. (CORE_SIZE - 1)

\* C6 witness: a DJN has just decremented a pointer that was 0, which now
\* holds CORE_SIZE - 1.
C6_Witness ==
    /\ last_step = "execute"
    /\ exec.operation.op = "Djn"
    /\ exec.operation.modifier = "F"
    /\ exec.b_instruction.a_operand.pointer = 0
    /\ core[exec.b_fold.address].a_operand.pointer = CORE_SIZE - 1

\* C7: no warrior's PC queue ever holds more than QUEUE_SIZE entries.
C7_QueueBounded == \A q \in AllQueues : Len(q) <= QUEUE_SIZE

\* C7 witness: an SPL has just been executed by a warrior whose queue is full.
C7_Witness ==
    /\ last_step = "execute"
    /\ exec.operation.op = "Spl"
    /\ \E r \in Runtime(exec.warrior_id) : Len(r.instruction_queue) = QUEUE_SIZE

\* The step from the current state is an executing iteration that completed.
ExecutedStep == last_step' = "execute" /\ ~panicked' /\ vars' # vars

\* the PC popped and the instruction executed by the executing iteration that
\* leaves the current state
PoppedPc == Head(warriors_queues[next_warrior_id + 1].instruction_queue)

PoppedInstruction == core[PoppedPc]

\* what one executing iteration does when the popped instruction is an SPL
C8_SplStep ==
    (ExecutedStep /\ PoppedInstruction.op = "Spl") =>
        LET q == warriors_queues[next_warrior_id + 1].instruction_queue
            len == Len(q) - 1
            next == (PoppedPc + 1) % CORE_SIZE
            A_addr == exec'.a_fold.address
        IN  /\ len < QUEUE_SIZE - 1 =>
                 warriors_queues'[next_warrior_id + 1].instruction_queue
                     = Tail(q) \o <<next, A_addr>>
            /\ len >= QUEUE_SIZE - 1 =>
                 warriors_queues'[next_warrior_id + 1].instruction_queue
                     = Tail(q) \o <<next>>
            /\ core' = exec'.b_fold.core

\* C8: SPL fork rule.  With len the length of the executing warrior's queue
\* after its own PC is popped: if len < QUEUE_SIZE - 1 the PCs ip + 1 and
\* A_addr are appended in that order, otherwise ip + 1 alone; the opcode
\* phase of SPL leaves the core as the folds left it.
C8_SplForkRule == [][C8_SplStep]_vars

\* C8 witness: an SPL has just been refused its fork (one PC appended to a
\* queue that held QUEUE_SIZE - 1 others), after an earlier SPL forked.
C8_Witness ==
    /\ last_step = "execute"
    /\ exec.operation.op = "Spl"
    /\ exec.queue_len >= QUEUE_SIZE - 1
    /\ Len(exec.pcs) = 1
    /\ exec.a_fold.address # exec.pcs[1]

\* what the specification's fold table says of one operand in a mode with a
\* side effect: the b pointer of cell m = ip + pointer becomes `updated`, the
\* address is m plus the updated pointer, and Change(m) is notified
FoldsWithSideEffect(pre, operand, ip, folded, warrior_id, rnd, updated) ==
    LET m == (ip + operand.pointer) % CORE_SIZE
    IN  /\ folded.core = [pre EXCEPT ![m].b_operand.pointer = updated]
        /\ folded.core[m].b_operand.pointer = updated
        /\ folded.address = (m + updated) % CORE_SIZE
        /\ folded.events = <<Change(m, warrior_id, rnd)>>

\* the fold table's row for PreIncrement, of one operand
IncrementFolds(pre, operand, ip, folded, warrior_id, rnd) ==
    operand.mode = "Increment" =>
        FoldsWithSideEffect(pre, operand, ip, folded, warrior_id, rnd,
            (pre[(ip + operand.pointer) % CORE_SIZE].b_operand.pointer + 1) % CORE_SIZE)

C9_IncrementStep ==
    ExecutedStep =>
        /\ IncrementFolds(core, PoppedInstruction.a_operand, PoppedPc, exec'.a_fold,
                          warriors_queues[next_warrior_id + 1].warrior_id, round)
        /\ IncrementFolds(exec'.a_fold.core, PoppedInstruction.b_operand, PoppedPc,
                          exec'.b_fold,
                          warriors_queues[next_warrior_id + 1].warrior_id, round)

\* C9: pre-increment fold.  An operand with mode PreIncrement first adds 1
\* (mod CORE_SIZE) to core[m].b_operand.pointer, then resolves to m plus the
\* new value, and emits Change(m).
C9_PreIncrementFold == [][C9_IncrementStep]_vars

\* the fold table's rows for PreDecrement, Immediate, Direct and Indirect, of
\* one operand
OtherFolds(pre, operand, ip, folded, warrior_id, rnd) ==
    LET m == (ip + operand.pointer) % CORE_SIZE
        b == pre[m].b_operand.pointer
    IN  /\ operand.mode = "Decrement" =>
              FoldsWithSideEffect(pre, operand, ip, folded, warrior_id, rnd,
                                  IF b = 0 THEN CORE_SIZE - 1 ELSE b - 1)
        /\ operand.mode = "Immediate" =>
              folded = [address |-> ip, core |-> pre, events |-> <<>>]
        /\ operand.mode = "Direct" =>
              folded = [address |-> m, core |-> pre, events |-> <<>>]
        /\ operand.mode = "Indirect" =>
              folded = [address |-> (m + b) % CORE_SIZE, core |-> pre, events |-> <<>>]

C10_FoldStep ==
    ExecutedStep =>
        /\ OtherFolds(core, PoppedInstruction.a_operand, PoppedPc, exec'.a_fold,
                      warriors_queues[next_warrior_id + 1].warrior_id, round)
        /\ OtherFolds(exec'.a_fold.core, PoppedInstruction.b_operand, PoppedPc,
                      exec'.b_fold,
                      warriors_queues[next_warrior_id + 1].warrior_id, round)
        /\ SubSeq(events', 1, Len(exec'.a_fold.events) + Len(exec'.b_fold.events))
              = exec'.a_fold.events \o exec'.b_fold.events

\* C10: pre-decrement fold.  An operand with mode PreDecrement first subtracts
\* 1 (mod CORE_SIZE, 0 becoming CORE_SIZE - 1) from core[m].b_operand.pointer,
\* then resolves to m plus the new value, emitting Change(m).  Immediate
\* resolves to ip, Direct to ip + pointer, Indirect to m + core[m].b pointer;
\* these three change no cell and emit no event.
C10_PreDecrementFold == [][C10_FoldStep]_vars

\* C10 witness: an instruction whose a-operand pre-decrements a b pointer
\* that was 0 and whose b-operand is indirect has just been executed.
C10_Witness ==
    /\ last_step = "execute"
    /\ ~panicked
    /\ exec.operation.a_operand.mode = "Decrement"
    /\ exec.operation.b_operand.mode = "Indirect"
    /\ LET m == (exec.instruction_pointer + exec.operation.a_operand.pointer)
                    % CORE_SIZE
       IN  /\ exec.core0[m].b_operand.pointer = 0
           /\ exec.a_fold.core[m].b_operand.pointer = CORE_SIZE - 1
           /\ exec.a_fold.address = (m + CORE_SIZE - 1) % CORE_SIZE

----------------------------------------------------------------------------
(* DIV and MOD *)

\* an iteration that popped a PC and called execute, whether or not the
\* instruction panicked
ExecutingStep == last_step' = "execute" /\ vars' # vars

\* the value a DIV or MOD stores for the field value u and the non-zero divisor d
Quotient(opcode, u, d) ==
    IF opcode = "Div" THEN (u \div d) % CORE_SIZE ELSE (u % d) % CORE_SIZE

\* what the specification says of a DIV or MOD with a two-field modifier: the
\* divisor of the target's a field is A_ins.a (A_ins.b under X), the divisor
\* of its b field is A_ins.b (A_ins.a under X)
C11_DivStep ==
    (/\ ExecutedStep
     /\ PoppedInstruction.op \in {"Div", "Mod"}
     /\ PoppedInstruction.modifier \in {"F", "X", "I"}) =>
        LET A_ins == exec'.a_instruction
            B_ins == exec'.b_instruction
            B_addr == exec'.b_fold.address
            X == PoppedInstruction.modifier = "X"
            da == IF X THEN A_ins.b_operand.pointer ELSE A_ins.a_operand.pointer
            db == IF X THEN A_ins.a_operand.pointer ELSE A_ins.b_operand.pointer
        IN  /\ core'[B_addr].a_operand.pointer =
                  IF da = 0 THEN B_ins.a_operand.pointer
                  ELSE Quotient(PoppedInstruction.op, B_ins.a_operand.pointer, da)
            /\ core'[B_addr].b_operand.pointer =
                  IF db = 0 THEN B_ins.b_operand.pointer
                  ELSE Quotient(PoppedInstruction.op, B_ins.b_operand.pointer, db)
            /\ exec'.pcs = IF da = 0 /\ db = 0 THEN <<>>
                           ELSE <<(PoppedPc + 1) % CORE_SIZE>>

\* C11: DIV/MOD with modifier F, X or I skips the write of a field whose
\* divisor is zero and writes a field whose divisor is not; the thread dies
\* only if both divisors are zero and continues at ip + 1 otherwise.
C11_DivTwoFields == [][C11_DivStep]_vars

\* the A_ins field the specification's modifier table selects as the divisor
\* of a single-field modifier
SelectedDivisor(modifier, A_ins) ==
    IF modifier \in {"A", "AB"} THEN A_ins.a_operand.pointer
    ELSE A_ins.b_operand.pointer

\* the field of core[B_addr] the specification's modifier table writes
TargetField(modifier) ==
    IF modifier \in {"A", "BA"} THEN "a_operand" ELSE "b_operand"

\* what the specification says of a DIV or MOD with a single-field modifier
C12_DivStep ==
    (/\ ExecutedStep
     /\ PoppedInstruction.op \in {"Div", "Mod"}
     /\ PoppedInstruction.modifier \in {"A", "B", "AB", "BA"}) =>
        LET B_addr == exec'.b_fold.address
            field == TargetField(PoppedInstruction.modifier)
            d == SelectedDivisor(PoppedInstruction.modifier, exec'.a_instruction)
        IN  /\ d # 0 =>
                  core' = [exec'.b_fold.core EXCEPT ![B_addr][field].pointer =
                              Quotient(PoppedInstruction.op,
                                       exec'.b_instruction[field].pointer, d)]
            /\ d = 0 => core' = exec'.b_fold.core

\* C12: DIV/MOD pair the fields as ADD/SUB/MUL do.  With a non-zero selected
\* divisor, A writes B.a := op(B_ins.a, A_ins.a), B writes
\* B.b := op(B_ins.b, A_ins.b), AB writes B.b := op(B_ins.b, A_ins.a) and BA
\* writes B.a := op(B_ins.a, A_ins.b); the zero test is on the divisor.
C12_DivPairings == [][C12_DivStep]_vars

\* a DIV or MOD with a single-field modifier whose selected divisor is zero
C13_DivStep ==
    (/\ ExecutingStep
     /\ PoppedInstruction.op \in {"Div", "Mod"}
     /\ PoppedInstruction.modifier \in {"A", "B", "AB", "BA"}
     /\ SelectedDivisor(PoppedInstruction.modifier, exec'.a_instruction) = 0) =>
        /\ ~panicked'
        /\ core' = exec'.b_fold.core
        /\ exec'.pcs = <<>>
        /\ events' = exec'.a_fold.events \o exec'.b_fold.events
        /\ warriors_queues'[next_warrior_id + 1].instruction_queue =
              Tail(warriors_queues[next_warrior_id + 1].instruction_queue)

\* C13: a DIV/MOD with modifier A, B, AB or BA whose selected A-side divisor
\* is zero leaves core[B_addr] unchanged, notifies no Change for B_addr and
\* returns no PC, so that the executing thread dies.
C13_DivByZeroKills == [][C13_DivStep]_vars

\* C13 witness: DIV.AB #0, $1 has just been executed: nothing written, no
\* event, and the warrior's only thread is gone.
C13_Witness ==
    /\ last_step = "execute"
    /\ ~panicked
    /\ exec.operation = Ins("Div", "AB", "Immediate", 0, "Direct", 1)
    /\ exec.a_instruction.a_operand.pointer = 0
    /\ exec.pcs = <<>>
    /\ events = <<>>
    /\ core = exec.core0
    /\ \E r \in Runtime(exec.warrior_id) : r.instruction_queue = <<>>

\* every cell an executing iteration changes is the offset of a Change event
\* of that iteration, carrying the executing warrior's id
C14_ChangeStep ==
    ExecutingStep =>
        \A address \in 0 .. (CORE_SIZE - 1) :
            core'[address] # core[address] =>
                \E k \in 1 .. Len(events') :
                    events'[k] = Change(address,
                                        warriors_queues[next_warrior_id + 1].warrior_id,
                                        round)

\* C14: every mutation of a core cell during play is reported.  In the tick
\* in which a field of core[x] is written, by a fold or by an opcode (a DIV/MOD
\* that writes one of two fields included), a Change event with offset x and
\* the executing warrior's id is notified.
C14_MutationsReported == [][C14_ChangeStep]_vars

----------------------------------------------------------------------------
(* DJN *)

\* the iteration leaving the current state executes a DJN.F whose target
\* cell core[B_addr] holds the pointers (a, b) once both operands are folded
DjnF_On(a, b) ==
    /\ ExecutedStep
    /\ PoppedInstruction.op = "Djn"
    /\ PoppedInstruction.modifier = "F"
    /\ exec'.b_instruction.a_operand.pointer = a
    /\ exec'.b_instruction.b_operand.pointer = b

\* the pointers of the target cell after the iteration
DjnF_Target ==
    <<core'[exec'.b_fold.address].a_operand.pointer,
      core'[exec'.b_fold.address].b_operand.pointer>>

DjnF_FallsThrough == exec'.pcs = <<(PoppedPc + 1) % CORE_SIZE>>

DjnF_Branches == exec'.pcs = <<exec'.a_fold.address>>

C15_DjnStep_Original ==
    /\ DjnF_On(1, 1) => DjnF_Target = <<0, 0>> /\ DjnF_FallsThrough
    /\ DjnF_On(1, 0) => DjnF_FallsThrough
    /\ DjnF_On(2, 0) => DjnF_Branches

\* C15 as stated: DJN.F on a target cell holding (1,1) leaves (0,0) and falls
\* through to ip + 1; on (1,0) it falls through; on (2,0) it branches to A_addr.
C15_DjnF_Original == [][C15_DjnStep_Original]_vars

C15_DjnStep ==
    /\ DjnF_On(1, 1) => DjnF_Target = <<0, 0>> /\ DjnF_FallsThrough
    /\ DjnF_On(1, 0) => DjnF_Target = <<0, CORE_SIZE - 1>> /\ DjnF_Branches
    /\ DjnF_On(2, 0) => DjnF_Target = <<1, CORE_SIZE - 1>> /\ DjnF_Branches

\* C15 amended: DJN.F on a target cell holding (1,1) leaves (0,0) and falls
\* through to ip + 1; on (1,0) the cell becomes (0, CORE_SIZE - 1) and the
\* thread branches to A_addr; on (2,0) it becomes (1, CORE_SIZE - 1) and the
\* thread branches to A_addr.
C15_DjnF == [][C15_DjnStep]_vars

\* C15 witness: a DJN.F has just decremented a target cell that held (1,0) to
\* (0, CORE_SIZE - 1) and branched to an A_addr other than ip + 1.
C15_Witness ==
    /\ last_step = "execute"
    /\ exec.operation.op = "Djn"
    /\ exec.operation.modifier = "F"
    /\ exec.b_instruction.a_operand.pointer = 1
    /\ exec.b_instruction.b_operand.pointer = 0
    /\ core[exec.b_fold.address].a_operand.pointer = 0
    /\ core[exec.b_fold.address].b_operand.pointer = CORE_SIZE - 1
    /\ exec.pcs = <<exec.a_fold.address>>
    /\ exec.a_fold.address # (exec.instruction_pointer + 1) % CORE_SIZE

----------------------------------------------------------------------------
(* Vm::new, under NewSpec *)

\* every warrior has at most CORE_SIZE / N instructions
Fits(defs) == \A k \in 1 .. Len(defs) : Len(defs[k]) <= CORE_SIZE \div Len(defs)

\* C16: for warriors that each fit their slot, Vm::new returns an error and
\* constructs no Vm exactly when there are fewer than 2 or more than 50
\* warriors; for 2 to 50 it succeeds with round 0, cursor 0 and one runtime
\* per warrior, in definition order.
C16_LoadCount ==
    (last_step = "new" /\ Fits(warriors_definitions)) =>
        LET n == Len(warriors_definitions)
        IN  /\ (pc = "error") <=> (n < 2 \/ n > 50)
            /\ pc = "error" => core = <<>> /\ warriors_queues = <<>>
            /\ pc # "error" =>
                  /\ pc = "idle"
                  /\ round = 0
                  /\ next_warrior_id = 0
                  /\ Len(warriors_queues) = n
                  /\ \A k \in 1 .. n : warriors_queues[k].warrior_id = k - 1

\* C16 witness: Vm::new has just refused 51 warriors.
C16_Witness ==
    /\ last_step = "new"
    /\ Len(warriors_definitions) = 51
    /\ Fits(warriors_definitions)
    /\ pc = "error"

\* C17: Vm::new returns an error when some warrior has more instructions than
\* CORE_SIZE / N; it neither loads such a warrior over another warrior's slot
\* nor indexes past the end of the core.
C17_OversizeRejected ==
    (/\ last_step = "new"
     /\ Len(warriors_definitions) \in 2 .. 50
     /\ ~Fits(warriors_definitions)) => pc = "error"

\* the cells the specification gives warrior k (1-based) of defs
Region(defs, k) ==
    { ((k - 1) * (CORE_SIZE \div Len(defs)) + i) % CORE_SIZE :
        i \in 0 .. (Len(defs[k]) - 1) }

\* C18: after a successful Vm::new with N warriors, warrior k's i-th
\* instruction is at core[(k * (CORE_SIZE / N) + i) mod CORE_SIZE], the loaded
\* regions are pairwise disjoint, warrior k's queue is [k * (CORE_SIZE / N)],
\* and every cell no warrior covers is DAT.A $0, $0.
C18_LoadLayout ==
    (last_step = "new" /\ pc = "idle") =>
        LET defs == warriors_definitions
            n == Len(defs)
            slot == CORE_SIZE \div n
        IN  /\ \A k \in 1 .. n : \A i \in 0 .. (Len(defs[k]) - 1) :
                  core[((k - 1) * slot + i) % CORE_SIZE] = defs[k][i + 1]
            /\ \A k \in 1 .. n : \A l \in 1 .. n :
                  k # l => Region(defs, k) \cap Region(defs, l) = {}
            /\ \A k \in 1 .. n :
                  warriors_queues[k].instruction_queue = <<(k - 1) * slot>>
            /\ \A address \in 0 .. (CORE_SIZE - 1) :
                  (\A k \in 1 .. n : address \notin Region(defs, k)) =>
                      core[address] = EmptyCell

----------------------------------------------------------------------------
(* Runtimes and the cursor *)

\* C19 as stated: in every state between ticks a warrior has an entry in the
\* runtime list if and only if its PC queue holds at least one PC: no runtime
\* with an empty queue is in the list.
C19_RuntimeIffAlive_Original ==
    \A i \in 1 .. Len(warriors_queues) : warriors_queues[i].instruction_queue # <<>>

\* the ids of the warriors in the runtime list
Listed(queues) == { queues[i].warrior_id : i \in 1 .. Len(queues) }

\* the step from the current state is an iteration of the loop of play
IterationStep == pc = "loop" /\ pc' # "idle" /\ vars' # vars

C19_Step ==
    /\ \A i \in 1 .. Len(warriors_queues) :
          warriors_queues[i].instruction_queue # <<>> =>
              warriors_queues[i].warrior_id \in Listed(warriors_queues')
    /\ \A j \in 1 .. Len(warriors_queues') :
          (/\ warriors_queues'[j].instruction_queue = <<>>
           /\ \E r \in Runtime(warriors_queues'[j].warrior_id) :
                 r.instruction_queue # <<>>) =>
              /\ last_step' = "execute"
              /\ exec'.warrior_id = warriors_queues'[j].warrior_id
    /\ (/\ IterationStep
        /\ warriors_queues[next_warrior_id + 1].instruction_queue = <<>>) =>
              /\ warriors_queues[next_warrior_id + 1].warrior_id
                     \notin Listed(warriors_queues')
              /\ Len(warriors_queues') = Len(warriors_queues) - 1
              /\ events' = <<VmEvent("TerminatedProgram", None, None,
                                     warriors_queues[next_warrior_id + 1].warrior_id,
                                     round)>>

\* C19 amended: a runtime whose PC queue holds at least one PC is never
\* removed from the list; a queue is emptied only by a tick of its own
\* warrior; and a runtime whose queue is empty stays in the list until its
\* warrior's next turn, when that iteration removes it with a
\* TerminatedProgram event.
C19_RuntimeRemovedAtNextTurn == [][C19_Step]_vars

\* C19 witness: a warrior with an empty queue has just been removed at its
\* turn, while another whose queue is empty is still listed, waiting for its
\* own, next to a warrior that is alive.
C19_Witness ==
    /\ last_step = "remove"
    /\ Len(events) = 1
    /\ events[1].event_type = "TerminatedProgram"
    /\ Runtime(events[1].warrior_id) = {}
    /\ executed[events[1].warrior_id] >= 1
    /\ \E i \in 1 .. Len(warriors_queues) : warriors_queues[i].instruction_queue = <<>>
    /\ \E i \in 1 .. Len(warriors_queues) : warriors_queues[i].instruction_queue # <<>>

\* C20: at the start of every iteration of the loop of play, in every play
\* call and after any removal, the cursor is less than the number of runtimes.
C20_CursorInRange ==
    (pc = "loop" /\ LoopCondition) => next_warrior_id < Len(warriors_queues)

\* C20 witness: an iteration is about to start after the removal of the last
\* runtime of the list, which left the cursor at the length of the list and
\* wrapped it to 0.
C20_Witness ==
    /\ pc = "loop"
    /\ LoopCondition
    /\ last_step = "remove"
    /\ next_warrior_id = 0
    /\ round >= 2
    /\ \A i \in 1 .. Len(warriors_queues) :
          warriors_queues[i].warrior_id < events[1].warrior_id

----------------------------------------------------------------------------
(* The embedder (main.rs) calls play in a loop until it returns a warrior,  *)
(* and every call runs its loop to the end.  FairSpec states this fairness  *)
(* over the hand-written two-warrior games.                                 *)

SmallInit == \E defs \in SmallGames : InitWith(defs)

FairSpec ==
    /\ SmallInit
    /\ [][Next]_vars
    /\ WF_vars(TickExecute)
    /\ WF_vars(TickRemove)
    /\ WF_vars(PlayReturn)
    /\ SF_vars(\E n \in 1 .. MaxTicks : PlayCall(n))

\* the game of warrior A, the imp MOV.I $0, $1, against warrior B, DAT.F $0, $0
ImpGame == warriors_definitions = <<Imp, Dwarf>>

\* what every state of the imp game satisfies
C4_ImpInvariant ==
    /\ \E r \in Runtime(0) : Len(r.instruction_queue) = 1
    /\ \A k \in 1 .. executed[0] : core[k % CORE_SIZE] = Imp[1]
    /\ (last_step = "execute" /\ exec.warrior_id = 0) =>
          /\ exec.operation = Imp[1]
          /\ exec.b_fold.address = executed[0] % CORE_SIZE
          /\ exec.core0[exec.b_fold.address] # Imp[1]
    /\ executed[1] <= 1
    /\ \A r \in Runtime(1) : executed[1] = 1 => r.instruction_queue = <<>>
    /\ (Runtime(1) = {}) <=> (round >= 2)
    /\ last_step = "remove" =>
          /\ events = <<VmEvent("TerminatedProgram", None, None, 1, 1)>>
          /\ executed[0] = 2
          /\ executed[1] = 1
          /\ Runtime(1) = {}
    /\ result \in {None, Some(0)}
    /\ (last_step = "return" /\ round >= 2) => result = Some(0)

\* C4: in the game of the imp (A) against a single DAT (B): A's queue always
\* holds exactly one PC and A's k-th executed instruction copies the imp into
\* cell k mod CORE_SIZE; B's queue is empty after B's first executed
\* instruction; B is removed, with a TerminatedProgram event, on its next
\* turn; and repeated play calls eventually return warrior A.
C4_ImpGame ==
    /\ [](ImpGame => C4_ImpInvariant)
    /\ ImpGame ~> (Runtime(1) = {} /\ pc = "idle" /\ result = Some(0))

\* C4 witness: in the imp game play has returned warrior A after B's removal.
C4_Witness ==
    /\ ImpGame
    /\ last_step = "return"
    /\ result = Some(0)
    /\ executed[0] = 2
    /\ core[2] = Imp[1]

----------------------------------------------------------------------------
(* Ticks of a play call, and the events a tick notifies *)

\* C21: a call play(n) runs at most n iterations of its loop, counting both
\* the iterations that execute an instruction and those that remove a
\* warrior, and runs none once at most one runtime is listed
C21_AtMostNTicks ==
    /\ [](pc = "loop" => iterations <= tick_count)
    /\ [][IterationStep => Len(warriors_queues) > 1]_vars

WarriorIds == 0 .. (Len(warriors_definitions) - 1)

\* the warriors whose queue has become empty: listed with an empty queue, or
\* removed from the list
Emptied == { id \in WarriorIds : \A r \in Runtime(id) : r.instruction_queue = <<>> }

\* how many TerminatedProgram events have carried the warrior's id
Reports(id) ==
    Cardinality({ k \in DOMAIN terminated_programs : terminated_programs[k] = id })

\* no later play call can run an iteration: the list never grows, and the
\* loop needs two runtimes
GameOver == pc = "idle" /\ Len(warriors_queues) <= 1

\* C22: every warrior whose queue has become empty is reported by exactly one
\* TerminatedProgram event: it has been reported by the time no iteration can
\* run any more, it is never reported twice, and no Jump, Change or
\* TerminatedThread event carries its id after the report
C22_EmptiedIsReported ==
    /\ [](GameOver => \A id \in Emptied : Reports(id) = 1)
    /\ [](\A id \in WarriorIds : Reports(id) <= 1)
    /\ [][\A k \in DOMAIN events' :
            events'[k].event_type # "TerminatedProgram" =>
                Reports(events'[k].warrior_id) = 0]_vars

IsJump(e) == e.event_type = "Jump"

IsTerminatedThread(e) == e.event_type = "TerminatedThread"

\* what one executing iteration notifies: one Jump per PC appended to the
\* queue of the executing warrior, after every Change; for a DAT one
\* TerminatedThread and no Jump
C23_TickEvents ==
    LET w == next_warrior_id + 1
        id == warriors_queues[w].warrior_id
        before == warriors_queues[w].instruction_queue
        after == warriors_queues'[w].instruction_queue
        appended == SubSeq(after, Len(before), Len(after))
    IN  /\ after = Tail(before) \o appended
        /\ SelectSeq(events', IsJump) =
              [k \in 1 .. Len(appended) |->
                  VmEvent("Jump", Some(PoppedPc), Some(appended[k]), id, round)]
        /\ \A i \in DOMAIN events' : \A j \in DOMAIN events' :
              (IsJump(events'[i]) /\ events'[j].event_type = "Change") => j < i
        /\ PoppedInstruction.op = "Dat" =>
              /\ appended = <<>>
              /\ SelectSeq(events', IsTerminatedThread) =
                    <<VmEvent("TerminatedThread", Some(PoppedPc), None, id, round)>>

\* C23: in every executed tick at PC ip the Jump events notified are, in
\* order, the PCs appended to the queue of the executing warrior (offset the
\* new PC, moved_from ip, warrior_id the executing warrior's id), they come
\* after all Change events of the tick, and a DAT notifies one
\* TerminatedThread with moved_from ip and no Jump
C23_JumpEvents == [][ExecutedStep => C23_TickEvents]_vars

\* an SPL behind a pre-decrement fold has notified a Change and then two Jumps
C23_Witness ==
    /\ last_step = "execute"
    /\ ~panicked
    /\ Len(exec.pcs) = 2
    /\ exec.pcs[1] # exec.pcs[2]
    /\ Len(events) = 3
    /\ events[1].event_type = "Change"
    /\ IsJump(events[2])
    /\ events[2].offset = Some(exec.pcs[1])
    /\ events[3].offset = Some(exec.pcs[2])

----------------------------------------------------------------------------
(* numeric.rs and parser.rs, under CallSpec *)

Returned == ret # None

\* C24: Numeric subtraction is modular: for a, b in [0, CORE_SIZE) the value
\* of Numeric(a) - Numeric(b) is (a + CORE_SIZE - b) mod CORE_SIZE, which is
\* the value in [0, CORE_SIZE) that added to b gives a modulo CORE_SIZE; the
\* in-place decrement by 1 maps 0 to CORE_SIZE - 1 and any other a to a - 1;
\* and Numeric::new(a + CORE_SIZE) is Numeric::new(a)
C24_ModularSubtraction ==
    Returned =>
        /\ call.function = "Numeric::sub" =>
              /\ ret[1] = (call.args[1] + CORE_SIZE - call.args[2]) % CORE_SIZE
              /\ ret[1] \in 0 .. (CORE_SIZE - 1)
              /\ (ret[1] + call.args[2]) % CORE_SIZE = call.args[1]
        /\ (call.function = "Numeric::sub_assign" /\ call.args[2] = 1) =>
              ret[1] = IF call.args[1] = 0 THEN CORE_SIZE - 1 ELSE call.args[1] - 1
        /\ (call.function = "Numeric::new" /\ call.args[1] >= CORE_SIZE) =>
              ret[1] = Numeric_new(call.args[1] - CORE_SIZE)

\* 0 - 1 has returned CORE_SIZE - 1
C24_Witness ==
    /\ call.function = "Numeric::sub"
    /\ call.args = <<0, 1>>
    /\ ret = Some(CORE_SIZE - 1)

\* the table of implicit modifiers, by rows
ImplicitTable(op, a_mode, b_mode) ==
    IF op = "Dat" THEN "F"
    ELSE IF op \in {"Jmp", "Jmz", "Jmn", "Djn", "Spl"} THEN "B"
    ELSE IF a_mode = "Immediate" THEN "AB"
    ELSE IF op = "Slt" THEN "B"
    ELSE IF b_mode = "Immediate" THEN "B"
    ELSE IF op \in {"Mov", "Cmp"} THEN "I"
    ELSE "F"

\* C25: the modifier the assembler assigns when none is written depends only
\* on the opcode and the two modes and is the one of the table (DAT F;
\* MOV/CMP AB, B, I; ADD/SUB/MUL/DIV/MOD AB, B, F; SLT AB, B; the jumps and
\* SPL B), and a modifier that is written is the modifier of the instruction
C25_ImplicitModifier ==
    Returned =>
        /\ call.function = "implicit_modifier" =>
              ret[1] = ImplicitTable(call.args[1], call.args[2].mode, call.args[3].mode)
        /\ call.about.family = "line" =>
              /\ ret[1].kind = "Ok"
              /\ Len(ret[1].value) = 1
              /\ ret[1].value[1].op = call.about.op
              /\ ret[1].value[1].a_operand.mode = call.about.a_mode
              /\ ret[1].value[1].b_operand.mode = call.about.b_mode
              /\ ret[1].value[1].modifier =
                    IF call.about.modifier # None THEN call.about.modifier[1]
                    ELSE ImplicitTable(call.about.op, call.about.a_mode,
                                       call.about.b_mode)

\* a MOV written without a modifier, its B operand immediate, was given B
C25_Witness ==
    /\ call.about.family = "line"
    /\ call.about.op = "Mov"
    /\ call.about.modifier = None
    /\ call.about.a_mode = "Direct"
    /\ call.about.b_mode = "Immediate"
    /\ Returned
    /\ ret[1].kind = "Ok"
    /\ ret[1].value[1].modifier = "B"

IsInstruction(kind) == kind \notin {"equ", "comment", "blank"}

\* the index of the labelled line among the instructions, counted from 0
LabelIndex(instructions) ==
    (CHOOSE j \in 1 .. Len(instructions) : instructions[j] = "labelled") - 1

\* every identifier the program uses is defined in it
Closed(kinds) ==
    /\ (\E i \in DOMAIN kinds : kinds[i] = "jump") =>
          \E i \in DOMAIN kinds : kinds[i] = "labelled"
    /\ (\E i \in DOMAIN kinds : kinds[i] = "variable") =>
          \E i \in DOMAIN kinds : kinds[i] = "equ"

\* what parse returns for the instructions of a generated program
C26_Program(instructions, parsed) ==
    /\ parsed.kind = "Ok"
    /\ Len(parsed.value) = Len(instructions)
    /\ \A i \in 1 .. Len(instructions) :
          /\ instructions[i] = "jump" =>
                parsed.value[i].a_operand.pointer =
                    (LabelIndex(instructions) + CORE_SIZE - (i - 1)) % CORE_SIZE
          /\ instructions[i] = "negative" =>
                /\ parsed.value[i].a_operand.pointer = (CORE_SIZE - 1) % CORE_SIZE
                /\ parsed.value[i].b_operand.pointer = (CORE_SIZE - 3) % CORE_SIZE
          /\ instructions[i] = "variable" =>
                parsed.value[i].b_operand.pointer = 3 % CORE_SIZE

\* the operands of tests::test_parse, as written or, for a label, as the
\* difference of the indexes
TestOperands ==
    << <<6, -1>>, <<6, -3>>, <<7, -4>>, <<4, 3>>, <<2, 2>>, <<3 - 5, 0>>,
       <<3, 3>>, <<0, -9>>, <<-10, 1>>, <<13 - 9, 0>>, <<0, -20>>, <<1, -22>>,
       <<-23, 0>>, <<0, 66>>, <<0, 1>> >>

IsOperatorPrecedence ==
    /\ call.function = "evaluate_operand"
    /\ call.args[1] = "5+10*12+7"

\* C27 as first stated: the expression "5+10*12+7" evaluates to 127
C27_Evaluates127_Original ==
    (IsOperatorPrecedence /\ Returned) => (ret[1].kind = "Ok" /\ ret[1].value = 127)

\* C27: the expression "5+10*12+7" evaluates to 132
C27_Evaluates132 ==
    (IsOperatorPrecedence /\ Returned) => (ret[1].kind = "Ok" /\ ret[1].value = 132)

C27_Witness == IsOperatorPrecedence /\ Returned /\ ret[1].kind = "Ok"

\* C28: for every well-formed infix expression over the literals of
\* [0, CORE_SIZE), the operators + - * / % and parentheses, without division
\* by zero, the pointer of the operand is the value of the expression under
\* the standard rules, reduced mod CORE_SIZE, the literal 0 and negative
\* differences included
C28_ExpressionValue ==
    (call.about.family = "expression" /\ Returned) =>
        /\ ret[1].kind = "Ok"
        /\ ret[1].value.pointer = call.about.value % CORE_SIZE

\* the variables written on the right-hand side of the variable n
References(rhs, n) == { rhs[n][k] : k \in DOMAIN rhs[n] } \cap Names

RECURSIVE Reachable(_, _, _)
\* the variables reached from the set `from` in at most k steps of reference
Reachable(rhs, from, k) ==
    IF k = 0 THEN from
    ELSE Reachable(rhs,
                   from \cup UNION { References(rhs, n) : n \in from \cap DOMAIN rhs },
                   k - 1)

Cyclic(rhs) ==
    \E n \in DOMAIN rhs :
        n \in Reachable(rhs, References(rhs, n), Cardinality(Names))

Dangling(rhs) == \E n \in DOMAIN rhs : ~(References(rhs, n) \subseteq DOMAIN rhs)

RECURSIVE Expansion(_, _)
\* the text of a token once every variable is replaced by its definition
Expansion(rhs, token) ==
    IF token \notin Names THEN token
    ELSE IF Len(rhs[token]) = 1 THEN Expansion(rhs, rhs[token][1])
    ELSE Expansion(rhs, rhs[token][1]) \o "+" \o Expansion(rhs, rhs[token][2])

\* C29: variable expansion terminates and rejects cycles: equ definitions
\* whose references contain a cycle make get_variables, and so parse, return
\* an error; definitions without a cycle, a variable referenced from two
\* others included, are expanded, and the map of the definitions is then
\* what it was before the expansion
C29_Expansion ==
    (call.about.family = "definitions" /\ Returned) =>
        /\ Cyclic(call.about.rhs) => ret[1].kind = "Err"
        /\ (~Cyclic(call.about.rhs) /\ ~Dangling(call.about.rhs)) =>
              /\ ret[1].kind = "Ok"
              /\ call.function = "get_variables" =>
                    /\ DOMAIN ret[1].value = DOMAIN call.about.rhs
                    /\ \A n \in DOMAIN call.about.rhs :
                          ret[1].value[n] = Expansion(call.about.rhs, n)
                    /\ ret[1].variables =
                          [n \in DOMAIN call.about.rhs |-> RhsText(call.about.rhs[n])]

\* z is referenced from x and from y, and x is expanded through both
C29_Witness ==
    /\ call.function = "get_variables"
    /\ call.about.rhs = [x |-> <<"y", "z">>, y |-> <<"z">>, z |-> <<"7">>]
    /\ Returned
    /\ ret[1].kind = "Ok"
    /\ ret[1].value["x"] = "7+7"

\* C30: every failure of the assembler is returned as an error: for a line
\* with a bad opcode, a bad modifier, a wrong number of tokens, an unknown
\* identifier or a malformed expression, parse returns Err, without a panic
\* and without the instructions of the lines before
C30_FailureIsErr ==
    (call.about.family = "malformed" /\ Returned) => ret[1].kind = "Err"

----------------------------------------------------------------------------
(* The two kinds of iteration of the loop of play *)

\* the position in the list (1-based) of the runtime at the cursor
AtCursor == next_warrior_id + 1

\* the cursor and the round after an iteration that leaves the cursor at c
\* over a list of n runtimes
Advanced(c, n) ==
    /\ c = n => (next_warrior_id' = 0 /\ round' = round + 1)
    /\ c # n => (next_warrior_id' = c /\ round' = round)

C31_ExecutingTick ==
    LET before == warriors_queues[AtCursor].instruction_queue
        after == warriors_queues'[AtCursor].instruction_queue
    IN  /\ exec'.instruction_pointer = Head(before)
        /\ exec'.operation = core[Head(before)]
        /\ Len(warriors_queues') = Len(warriors_queues)
        /\ after = Tail(before) \o exec'.pcs
        /\ warriors_queues'[AtCursor].warrior_id = warriors_queues[AtCursor].warrior_id
        /\ \A i \in 1 .. Len(warriors_queues) :
              i # AtCursor => warriors_queues'[i] = warriors_queues[i]
        /\ Advanced(next_warrior_id + 1, Len(warriors_queues))
        /\ (PoppedInstruction.op = "Spl" /\ Len(before) - 1 < QUEUE_SIZE - 1) =>
              after = Tail(before)
                         \o <<(PoppedPc + 1) % CORE_SIZE, exec'.a_fold.address>>

\* C31: an executing tick pops the front PC of the warrior at the cursor,
\* appends the PCs the executor returned to the back of the queue of that
\* warrior, in the order returned, leaves the queue of every other warrior
\* as it was and advances the cursor by one (to 0 past the end of the list):
\* the threads of a warrior run in FIFO order, and the thread an SPL forks is
\* queued after ip + 1 and after every PC queued before
C31_FifoTick == [][ExecutedStep => C31_ExecutingTick]_vars

\* an SPL of a warrior with a PC still queued has forked: three PCs are
\* queued, the one that waited, then ip + 1, then the forked one
C31_Witness ==
    /\ last_step = "execute"
    /\ ~panicked
    /\ exec.operation.op = "Spl"
    /\ exec.queue_len = 1
    /\ Len(exec.pcs) = 2
    /\ exec.pcs[1] # exec.pcs[2]
    /\ \E r \in Runtime(exec.warrior_id) :
          /\ Len(r.instruction_queue) = 3
          /\ SubSeq(r.instruction_queue, 2, 3) = exec.pcs

\* the step from the current state is an iteration that finds the queue of
\* the warrior at the cursor empty
RemovalStep ==
    /\ IterationStep
    /\ warriors_queues[AtCursor].instruction_queue = <<>>

C32_Removal ==
    /\ Len(warriors_queues') = Len(warriors_queues) - 1
    /\ \A i \in 1 .. Len(warriors_queues') :
          warriors_queues'[i] = warriors_queues[IF i < AtCursor THEN i ELSE i + 1]
    /\ events' = <<VmEvent("TerminatedProgram", None, None,
                           warriors_queues[AtCursor].warrior_id, round)>>
    /\ core' = core
    /\ Advanced(next_warrior_id, Len(warriors_queues'))

\* C32: a removal step removes the runtime at the cursor and no other,
\* notifies one TerminatedProgram event with its warrior_id, changes no cell
\* of the core and no other queue, and leaves the cursor at the same index,
\* where the next warrior in order now is; only if the cursor then equals
\* the length of the list does it wrap to 0, the round incremented by one
C32_RemovalStep == [][RemovalStep => C32_Removal]_vars

\* the second of three warriors has been removed: the cursor has stayed at
\* its index, where the third warrior now is
C32_Witness ==
    /\ last_step = "remove"
    /\ events[1].event_type = "TerminatedProgram"
    /\ events[1].warrior_id = 1
    /\ next_warrior_id = 1
    /\ Len(warriors_queues) = 2
    /\ warriors_queues[2].warrior_id = 2

----------------------------------------------------------------------------
(* The two phases of execute *)

\* the modes whose fold updates a cell
Updating(mode) == mode \in {"Decrement", "Increment"}

\* what the fold of an operand in such a mode adds to the b pointer, mod CORE_SIZE
Delta(mode) == IF mode = "Increment" THEN 1 ELSE CORE_SIZE - 1

\* the cell an operand of the instruction at ip points to
Pointed(ip, operand) == (ip + operand.pointer) % CORE_SIZE

\* the b pointer of cell m once an operand of the given mode is folded over
\* the cell holding v, and the address the fold resolves to
FoldedTwice(m, v0, a_mode, b_mode, a_folded, b_folded) ==
    LET va == (v0 + Delta(a_mode)) % CORE_SIZE
        vab == (va + Delta(b_mode)) % CORE_SIZE
    IN  /\ a_folded.core[m].b_operand.pointer = va
        /\ b_folded.core[m].b_operand.pointer = vab
        /\ b_folded.address =
              (m + (IF b_mode = "Decrement" THEN vab ELSE va)) % CORE_SIZE

\* the arithmetic of ADD, SUB and MUL on two pointers
Arithmetic(opcode, left, right) ==
    CASE opcode = "Add" -> (left + right) % CORE_SIZE
      [] opcode = "Sub" -> (left + CORE_SIZE - right) % CORE_SIZE
      [] opcode = "Mul" -> (left * right) % CORE_SIZE

C33_Phases ==
    LET ip == PoppedPc
        ins == PoppedInstruction
        id == warriors_queues[AtCursor].warrior_id
        a_folded == exec'.a_fold
        b_folded == exec'.b_fold
        m_a == Pointed(ip, ins.a_operand)
        m_b == Pointed(ip, ins.b_operand)
        A_addr == a_folded.address
        B_addr == b_folded.address
        A_ins == b_folded.core[A_addr]
        B_ins == b_folded.core[B_addr]
    IN  /\ a_folded.events =
              IF Updating(ins.a_operand.mode) THEN <<Change(m_a, id, round)>> ELSE <<>>
        /\ b_folded.events =
              IF Updating(ins.b_operand.mode) THEN <<Change(m_b, id, round)>> ELSE <<>>
        /\ SubSeq(events', 1, Len(a_folded.events) + Len(b_folded.events))
              = a_folded.events \o b_folded.events
        /\ (Updating(ins.a_operand.mode) /\ Updating(ins.b_operand.mode) /\ m_a = m_b) =>
              FoldedTwice(m_a, core[m_a].b_operand.pointer, ins.a_operand.mode,
                          ins.b_operand.mode, a_folded, b_folded)
        /\ exec'.a_instruction = A_ins
        /\ exec'.b_instruction = B_ins
        /\ (A_addr = B_addr /\ ins.modifier = "X" /\ ins.op = "Mov") =>
              /\ core'[B_addr].a_operand = A_ins.b_operand
              /\ core'[B_addr].b_operand = A_ins.a_operand
        /\ (A_addr = B_addr /\ ins.modifier = "X" /\ ins.op \in {"Add", "Sub", "Mul"}) =>
              /\ core'[B_addr].a_operand.pointer =
                    Arithmetic(ins.op, A_ins.a_operand.pointer, A_ins.b_operand.pointer)
              /\ core'[B_addr].b_operand.pointer =
                    Arithmetic(ins.op, A_ins.b_operand.pointer, A_ins.a_operand.pointer)

\* C33: the a-operand is folded completely, its update of the core and its
\* Change event included, before the b-operand: when both operands
\* pre-decrement or pre-increment the same cell the cell is updated twice
\* and the b-address is computed from the pointer the a-operand left; the
\* snapshots A_ins and B_ins are the cells after both folds and before any
\* write of the opcode, so that with A_addr = B_addr what is written to
\* core[B_addr] does not change what is read from A_ins
C33_FoldOrder == [][ExecutedStep => C33_Phases]_vars

\* both operands have pre-decremented the same cell, which held 0
C33_Witness ==
    /\ last_step = "execute"
    /\ ~panicked
    /\ exec.operation.a_operand.mode = "Decrement"
    /\ exec.operation.b_operand.mode = "Decrement"
    /\ exec.operation.a_operand.pointer = exec.operation.b_operand.pointer
    /\ LET m == Pointed(exec.instruction_pointer, exec.operation.a_operand)
       IN  /\ exec.core0[m].b_operand.pointer = 0
           /\ exec.a_fold.core[m].b_operand.pointer = CORE_SIZE - 1
           /\ exec.b_fold.core[m].b_operand.pointer = CORE_SIZE - 2
           /\ exec.b_fold.address = (m + CORE_SIZE - 2) % CORE_SIZE
    /\ Len(events) >= 2
    /\ events[1].event_type = "Change"
    /\ events[2].event_type = "Change"

\* the opcode phase changes no cell but core[B_addr]
OnlyTarget(pre, post, B_addr) ==
    \A cell \in 0 .. (CORE_SIZE - 1) : cell # B_addr => post[cell] = pre[cell]

\* what an opcode that writes core[B_addr] and continues at ip + 1 notifies
\* after the events of the folds: one Change, then the Jump of play
WritesAndContinues(ip, B_addr, id) ==
    /\ exec'.op_events = <<Change(B_addr, id, round)>>
    /\ exec'.pcs = <<(ip + 1) % CORE_SIZE>>
    /\ events' = exec'.a_fold.events \o exec'.b_fold.events
                    \o <<Change(B_addr, id, round),
                         VmEvent("Jump", Some(ip), Some((ip + 1) % CORE_SIZE), id, round)>>

\* the cell MOV leaves at B_addr, by modifier
Moved(modifier, A_ins, B_cell) ==
    CASE modifier = "A"  -> [B_cell EXCEPT !.a_operand = A_ins.a_operand]
      [] modifier = "B"  -> [B_cell EXCEPT !.b_operand = A_ins.b_operand]
      [] modifier = "AB" -> [B_cell EXCEPT !.b_operand = A_ins.a_operand]
      [] modifier = "BA" -> [B_cell EXCEPT !.a_operand = A_ins.b_operand]
      [] modifier = "F"  -> [B_cell EXCEPT !.a_operand = A_ins.a_operand,
                                           !.b_operand = A_ins.b_operand]
      [] modifier = "X"  -> [B_cell EXCEPT !.a_operand = A_ins.b_operand,
                                           !.b_operand = A_ins.a_operand]
      [] modifier = "I"  -> A_ins

C34_Mov ==
    LET pre == exec'.b_fold.core
        B_addr == exec'.b_fold.address
        A_ins == pre[exec'.a_fold.address]
        modifier == PoppedInstruction.modifier
    IN  /\ core'[B_addr] = Moved(modifier, A_ins, pre[B_addr])
        /\ modifier # "I" =>
              /\ core'[B_addr].op = pre[B_addr].op
              /\ core'[B_addr].modifier = pre[B_addr].modifier
        /\ OnlyTarget(pre, core', B_addr)
        /\ WritesAndContinues(PoppedPc, B_addr, warriors_queues[AtCursor].warrior_id)

\* C34: in its opcode phase MOV writes the fields its modifier names and
\* nothing else: A the a operand of A_ins to the a operand of core[B_addr],
\* B b to b, AB a to b, BA b to a, F both, X both exchanged, I the whole
\* instruction, an operand being its pointer and its mode; under every
\* modifier but I the opcode and the modifier of core[B_addr] stay; every
\* other cell stays; one Change(B_addr) is notified and [ip + 1] returned
C34_MovWrites == [][(ExecutedStep /\ PoppedInstruction.op = "Mov") => C34_Mov]_vars

\* a MOV.AB has copied an immediate a operand over a direct b operand
C34_Witness ==
    /\ last_step = "execute"
    /\ ~panicked
    /\ exec.operation.op = "Mov"
    /\ exec.operation.modifier = "AB"
    /\ exec.a_instruction.a_operand.mode = "Immediate"
    /\ exec.b_instruction.b_operand.mode = "Direct"
    /\ exec.a_fold.address # exec.b_fold.address
    /\ core[exec.b_fold.address].b_operand = exec.a_instruction.a_operand
    /\ core[exec.b_fold.address].a_operand = exec.b_instruction.a_operand

C35_Arithmetic ==
    LET pre == exec'.b_fold.core
        B_addr == exec'.b_fold.address
        A_ins == pre[exec'.a_fold.address]
        B_ins == pre[B_addr]
        opcode == PoppedInstruction.op
        modifier == PoppedInstruction.modifier
        a == core'[B_addr].a_operand.pointer
        b == core'[B_addr].b_operand.pointer
    IN  /\ modifier = "X" =>
              /\ a = Arithmetic(opcode, B_ins.a_operand.pointer, A_ins.b_operand.pointer)
              /\ b = Arithmetic(opcode, B_ins.b_operand.pointer, A_ins.a_operand.pointer)
        /\ modifier \in {"F", "I"} =>
              /\ a = Arithmetic(opcode, B_ins.a_operand.pointer, A_ins.a_operand.pointer)
              /\ b = Arithmetic(opcode, B_ins.b_operand.pointer, A_ins.b_operand.pointer)
        /\ a \in 0 .. (CORE_SIZE - 1)
        /\ b \in 0 .. (CORE_SIZE - 1)
        /\ core'[B_addr] = [B_ins EXCEPT !.a_operand.pointer = a, !.b_operand.pointer = b]
        /\ OnlyTarget(pre, core', B_addr)
        /\ exec'.pcs = <<(PoppedPc + 1) % CORE_SIZE>>

\* C35: ADD, SUB and MUL under modifier X write op(B_ins.a, A_ins.b) to the a
\* pointer of core[B_addr] and op(B_ins.b, A_ins.a) to its b pointer, B_ins
\* the left operand (SUB is B minus A); modifier I does what F does; only
\* pointers change, no mode, opcode or modifier; the results are reduced mod
\* CORE_SIZE; and the instruction returns [ip + 1]
C35_ArithmeticX ==
    [][(ExecutedStep /\ PoppedInstruction.op \in {"Add", "Sub", "Mul"}) => C35_Arithmetic]_vars

\* a SUB.X has written B minus A, one difference wrapping below zero
C35_Witness ==
    /\ last_step = "execute"
    /\ ~panicked
    /\ exec.operation.op = "Sub"
    /\ exec.operation.modifier = "X"
    /\ exec.b_instruction.a_operand.pointer < exec.a_instruction.b_operand.pointer
    /\ exec.b_instruction.b_operand.pointer > exec.a_instruction.a_operand.pointer
    /\ core[exec.b_fold.address].a_operand.pointer =
          exec.b_instruction.a_operand.pointer + CORE_SIZE
              - exec.a_instruction.b_operand.pointer
    /\ core[exec.b_fold.address].b_operand.pointer =
          exec.b_instruction.b_operand.pointer - exec.a_instruction.a_operand.pointer

\* whether the pointers of a cell that a modifier selects are all zero
AllSelectedZero(modifier, cell) ==
    CASE modifier \in {"A", "BA"} -> cell.a_operand.pointer = 0
      [] modifier \in {"B", "AB"} -> cell.b_operand.pointer = 0
      [] modifier \in {"F", "X", "I"} ->
            cell.a_operand.pointer = 0 /\ cell.b_operand.pointer = 0

\* a pointer decremented by 1 mod CORE_SIZE
Decremented(p) == IF p = 0 THEN CORE_SIZE - 1 ELSE p - 1

\* the cell DJN leaves at B_addr, by modifier
Counted(modifier, cell) ==
    CASE modifier \in {"A", "BA"} ->
            [cell EXCEPT !.a_operand.pointer = Decremented(@)]
      [] modifier \in {"B", "AB"} ->
            [cell EXCEPT !.b_operand.pointer = Decremented(@)]
      [] modifier \in {"F", "X", "I"} ->
            [cell EXCEPT !.a_operand.pointer = Decremented(@),
                         !.b_operand.pointer = Decremented(@)]

C36_Jumps ==
    LET pre == exec'.b_fold.core
        A_addr == exec'.a_fold.address
        B_addr == exec'.b_fold.address
        B_ins == pre[B_addr]
        opcode == PoppedInstruction.op
        modifier == PoppedInstruction.modifier
        next == (PoppedPc + 1) % CORE_SIZE
    IN  /\ opcode = "Djn" =>
              /\ core'[B_addr] = Counted(modifier, B_ins)
              /\ OnlyTarget(pre, core', B_addr)
              /\ exec'.pcs = IF AllSelectedZero(modifier, core'[B_addr])
                             THEN <<next>> ELSE <<A_addr>>
              /\ exec'.op_events =
                    <<Change(B_addr, warriors_queues[AtCursor].warrior_id, round)>>
        /\ opcode \in {"Jmz", "Jmn"} =>
              /\ core' = pre
              /\ exec'.op_events = <<>>
        /\ opcode = "Jmz" =>
              exec'.pcs = IF AllSelectedZero(modifier, B_ins) THEN <<A_addr>> ELSE <<next>>
        /\ opcode = "Jmn" =>
              exec'.pcs = IF AllSelectedZero(modifier, B_ins) THEN <<next>> ELSE <<A_addr>>

\* C36: DJN decrements by 1 mod CORE_SIZE, in place, the pointers of
\* core[B_addr] its modifier selects (A, BA: a; B, AB: b; F, X, I: both),
\* then returns [A_addr] if a selected pointer is not zero after the
\* decrement and [ip + 1] otherwise, one Change(B_addr) notified in both
\* cases; JMZ and JMN change no cell in the opcode phase, and under every
\* modifier and for every B_ins JMN branches exactly when JMZ falls through
C36_DjnJmzJmn ==
    [][(ExecutedStep /\ PoppedInstruction.op \in {"Djn", "Jmz", "Jmn"}) => C36_Jumps]_vars

\* a JMN.F has branched on a B_ins whose a pointer is not zero and whose b
\* pointer is zero
C36_Witness ==
    /\ last_step = "execute"
    /\ ~panicked
    /\ exec.operation.op = "Jmn"
    /\ exec.operation.modifier = "F"
    /\ exec.b_instruction.a_operand.pointer # 0
    /\ exec.b_instruction.b_operand.pointer = 0
    /\ exec.pcs = <<exec.a_fold.address>>
    /\ exec.a_fold.address # (exec.instruction_pointer + 1) % CORE_SIZE

----------------------------------------------------------------------------
(* The identity of a warrior *)

\* the runtimes are listed by increasing warrior_id
Ordered(queues) ==
    \A i \in 1 .. Len(queues) : \A j \in 1 .. Len(queues) :
        i < j => queues[i].warrior_id < queues[j].warrior_id

C38_Tick ==
    LET id == warriors_queues[AtCursor].warrior_id
    IN  /\ exec'.warrior_id = id
        /\ \A k \in DOMAIN events' : events'[k].warrior_id = id
        /\ executed' = [executed EXCEPT ![id] = @ + 1]
        /\ warriors_queues'[AtCursor].warrior_id = id
        /\ warriors_queues'[AtCursor].instruction_queue =
              Tail(warriors_queues[AtCursor].instruction_queue) \o exec'.pcs
        /\ (PoppedInstruction.op = "Spl") =>
              (Len(exec'.pcs) = 2 <=>
                  Len(warriors_queues[AtCursor].instruction_queue) - 1 < QUEUE_SIZE - 1)

\* C38: the identity of a warrior survives removals: the list of runtimes
\* stays ordered by increasing warrior_id; every event of a tick carries the
\* warrior_id of the runtime at the cursor, its index at construction, not
\* its position in the list; the queue popped, pushed and measured by SPL is
\* the one at the cursor position; and the definition play returns is the
\* one whose index is the warrior_id of the runtime that is left
C38_Identity ==
    /\ [](Ordered(warriors_queues))
    /\ []((last_step = "return" /\ Len(warriors_queues) = 1) =>
             result = Some(warriors_queues[1].warrior_id))
    /\ []((last_step = "return" /\ Len(warriors_queues) # 1) => result = None)
    /\ [][ExecutedStep => C38_Tick]_vars

\* the first of three warriors is removed and the third, now at the second
\* position of the list, has executed: its events carry the id 2
C38_Witness ==
    /\ last_step = "execute"
    /\ ~panicked
    /\ Len(warriors_queues) = 2
    /\ warriors_queues[1].warrior_id = 1
    /\ warriors_queues[2].warrior_id = 2
    /\ exec.warrior_id = 2
    /\ Len(events) >= 1
    /\ \A k \in DOMAIN events : events[k].warrior_id = 2

----------------------------------------------------------------------------
(* Folds of operands the opcode does not use, and the end of a play call *)

\* what the fold of one operand does, whatever the opcode: in a mode that
\* updates, the b pointer of the cell pointed to changes by one and Change is
\* notified; in the other modes nothing changes and nothing is notified
FoldsOperand(pre, operand, ip, folded, id) ==
    LET m == Pointed(ip, operand)
    IN  IF Updating(operand.mode)
        THEN /\ folded.core =
                    [pre EXCEPT ![m].b_operand.pointer = (@ + Delta(operand.mode)) % CORE_SIZE]
             /\ folded.core # pre
             /\ folded.events = <<Change(m, id, round)>>
        ELSE /\ folded.core = pre
             /\ folded.events = <<>>

\* the address the b-operand resolves to, over the core the fold of the
\* a-operand left
ResolvedB(operand, ip, pre, folded) ==
    LET m == Pointed(ip, operand)
    IN  CASE operand.mode = "Immediate" -> ip
          [] operand.mode = "Direct" -> m
          [] operand.mode = "Indirect" -> (m + pre[m].b_operand.pointer) % CORE_SIZE
          [] operand.mode = "Increment" -> (m + pre[m].b_operand.pointer) % CORE_SIZE
          [] operand.mode = "Decrement" -> (m + folded[m].b_operand.pointer) % CORE_SIZE

C39_Folds ==
    LET ip == PoppedPc
        ins == PoppedInstruction
        id == warriors_queues[AtCursor].warrior_id
    IN  /\ exec'.operation = ins
        /\ FoldsOperand(core, ins.a_operand, ip, exec'.a_fold, id)
        /\ FoldsOperand(exec'.a_fold.core, ins.b_operand, ip, exec'.b_fold, id)
        /\ exec'.b_fold.address =
              ResolvedB(ins.b_operand, ip, exec'.a_fold.core, exec'.b_fold.core)
        /\ events' = exec'.a_fold.events \o exec'.b_fold.events \o exec'.op_events
                        \o JumpEvents(exec'.pcs, ip, id, round)
        /\ ins.op \in {"Dat", "Jmp", "Spl"} => core' = exec'.b_fold.core
        /\ ins.op = "Dat" =>
              /\ exec'.pcs = <<>>
              /\ exec'.op_events = <<VmEvent("TerminatedThread", Some(ip), None, id, round)>>

\* C39: the side effects of the folds happen under every opcode and for both
\* operands, used by the opcode or not: a DAT, a JMP or an SPL with an
\* operand of mode PreDecrement or PreIncrement changes the b pointer of the
\* cell pointed to and notifies Change before the opcode takes effect, a
\* thread that dies on DAT <x, <y included; and the operands folded are those
\* of the copy of the instruction taken before the folds, even when a fold
\* changes core[ip] itself
C39_FoldSideEffects == [][ExecutedStep => C39_Folds]_vars

\* a DAT <0, $0 has died: the fold of its a-operand has changed the b pointer
\* of the DAT itself, and its b-operand has resolved with the pointer of the copy
C39_Witness ==
    /\ last_step = "execute"
    /\ exec.operation.op = "Dat"
    /\ exec.operation.a_operand = Operand("Decrement", 0)
    /\ exec.operation.b_operand = Operand("Direct", 0)
    /\ core[exec.instruction_pointer].b_operand.pointer = CORE_SIZE - 1
    /\ exec.b_fold.address = exec.instruction_pointer
    /\ Len(events) = 2
    /\ events[1] = Change(exec.instruction_pointer, exec.warrior_id, events[2].round)
    /\ events[2].event_type = "TerminatedThread"
    /\ \A r \in Runtime(exec.warrior_id) : r.instruction_queue = <<>>

\* what is left to a running call: the executions not yet made and the
\* removals the list still allows
Rank == (tick_count - ticks_played) + (Len(warriors_queues) - 1)

C40_Iteration ==
    /\ iterations' = iterations + 1
    /\ Rank' = Rank - 1
    /\ \/ /\ ticks_played' = ticks_played + 1
          /\ Len(warriors_queues') = Len(warriors_queues)
       \/ /\ ticks_played' = ticks_played
          /\ Len(warriors_queues') = Len(warriors_queues) - 1

\* C40: every call play(n) terminates: each iteration of its loop either
\* executes one instruction, counted against n, or removes one warrior from
\* a list that never grows and never holds less than one runtime, so that a
\* call makes at most n executions and at most (number of runtimes - 1)
\* removals
C40_Terminates ==
    /\ [](pc = "loop" => (ticks_played <= tick_count /\ Rank >= 0))
    /\ [](Len(warriors_queues) >= 1)
    /\ [][pc' = "loop" /\ pc = "idle" => (iterations' = 0 /\ Rank' = tick_count' + Len(warriors_queues) - 1)]_vars
    /\ [][IterationStep => C40_Iteration]_vars
    /\ [][Len(warriors_queues') <= Len(warriors_queues)]_vars

\* a call has run one execution and two removals and is about to return
C40_Witness ==
    /\ pc = "loop"
    /\ ~LoopCondition
    /\ Len(warriors_queues) = 1
    /\ ticks_played = 1
    /\ iterations = 3
    /\ tick_count = MaxTicks

----------------------------------------------------------------------------
(* vms.rs: Vm::play as a function of the machine and of the tick count *)

\* the fields of the Vm that play reads and writes; panic tells that a call
\* has unwound out of play
VmState ==
    [core |-> core, warriors_queues |-> warriors_queues,
     next_warrior_id |-> next_warrior_id, round |-> round, panic |-> panicked]

\* the condition of a loop that runs once more when the ticks are used up
Continues_Inclusive(vm, played, n) ==
    /\ ~vm.panic
    /\ Len(vm.warriors_queues) > 1
    /\ played <= n

\* the condition of the while loop, over a machine that has not panicked
Continues(vm, played, n) ==
    /\ ~vm.panic
    /\ Len(vm.warriors_queues) > 1
    /\ played < n

RECURSIVE PlayLoop(_, _, _, _)

\* one executing iteration and the rest of the loop, e being what execute
\* returned for the PC popped from the queue at list position w
PlayExecute(vm, w, e, played, n, notified) ==
    IF e.panic
    THEN PlayLoop([vm EXCEPT !.core = e.core,
                             !.warriors_queues[w].instruction_queue = Tail(@),
                             !.panic = TRUE],
                  played + 1, n, notified \o e.events)
    ELSE PlayLoop([core |-> e.core,
                   warriors_queues |->
                       [vm.warriors_queues EXCEPT
                           ![w].instruction_queue = Tail(@) \o e.pcs],
                   next_warrior_id |->
                       Wrap(vm.next_warrior_id + 1, Len(vm.warriors_queues),
                            vm.round).next_warrior_id,
                   round |->
                       Wrap(vm.next_warrior_id + 1, Len(vm.warriors_queues),
                            vm.round).round,
                   panic |-> FALSE],
                  played + 1, n,
                  notified \o e.events
                           \o JumpEvents(e.pcs, e.instruction_pointer, e.warrior_id,
                                         vm.round))

\* one removing iteration and the rest of the loop, remaining being the list
\* without the runtime at position w
PlayRemove(vm, w, remaining, played, n, notified) ==
    PlayLoop([vm EXCEPT
                 !.warriors_queues = remaining,
                 !.next_warrior_id =
                     Wrap(vm.next_warrior_id, Len(remaining), vm.round).next_warrior_id,
                 !.round = Wrap(vm.next_warrior_id, Len(remaining), vm.round).round],
             played, n,
             Append(notified, VmEvent("TerminatedProgram", None, None,
                                      vm.warriors_queues[w].warrior_id, vm.round)))

\* the while loop of play from the machine vm, played ticks being counted
\* already: the machine it leaves and every event it notifies
PlayLoop(vm, played, n, notified) ==
    IF ~Continues(vm, played, n)
    THEN [vm |-> vm, events |-> notified]
    ELSE IF vm.warriors_queues[vm.next_warrior_id + 1].instruction_queue # <<>>
         THEN PlayExecute(vm, vm.next_warrior_id + 1,
                  execute(vm.core,
                          Len(vm.warriors_queues[vm.next_warrior_id + 1].instruction_queue) - 1,
                          vm.core[Head(vm.warriors_queues[vm.next_warrior_id + 1].instruction_queue)],
                          Head(vm.warriors_queues[vm.next_warrior_id + 1].instruction_queue),
                          vm.warriors_queues[vm.next_warrior_id + 1].warrior_id,
                          vm.round),
                  played, n, notified)
         ELSE PlayRemove(vm, vm.next_warrior_id + 1,
                  RemoveAt(vm.warriors_queues, vm.next_warrior_id + 1),
                  played, n, notified)

\* what play hands back once its loop has ended: the machine, the events
\* notified and the survivor, if the list holds one runtime
Returning(done) ==
    [vm |-> done.vm,
     events |-> done.events,
     result |-> IF ~done.vm.panic /\ Len(done.vm.warriors_queues) = 1
                THEN Some(done.vm.warriors_queues[1].warrior_id)
                ELSE None]

\* play(n) on the machine vm: the machine after the call, the events
\* notified during the call and the value returned
Play(vm, n) == Returning(PlayLoop(vm, 0, n, <<>>))

\* the machine, the events and the value that a call has left
Played(p) ==
    /\ core' = p.vm.core
    /\ warriors_queues' = p.vm.warriors_queues
    /\ next_warrior_id' = p.vm.next_warrior_id
    /\ round' = p.vm.round
    /\ panicked' = p.vm.panic
    /\ events' = p.events
    /\ result' = p.result

\* the embedder calls play(n) and the call runs to its end
Call_play(n) ==
    /\ pc = "idle"
    /\ ~panicked
    /\ round < MaxRound
    /\ call' = [function |-> "play", args |-> <<n>>, about |-> [family |-> "none"]]
    /\ Played(Play(VmState, n))
    /\ last_step' = "return"
    /\ UNCHANGED <<warriors_definitions, pc, tick_count, ticks_played, exec,
                   executed, iterations, terminated_programs, ret, overflow_checks>>

PlayNext == \E n \in 0 .. MaxTicks : Call_play(n)

PlaySpec == Init /\ [][PlayNext]_vars

----------------------------------------------------------------------------
(* The batching of ticks, under PlaySpec *)

\* play(m) and then play(n) against play(m + n), from the machine as it is
\* two calls that leave what one call leaves
Same(first, second, whole) ==
    /\ second.vm = whole.vm
    /\ first.events \o second.events = whole.events
    /\ second.result = whole.result

\* play(n) after a first call, against the whole call
Split(first, n, whole) == Same(first, Play(first.vm, n), whole)

Batched(m, n) == Split(Play(VmState, m), n, Play(VmState, m + n))

\* a call on a machine that has returned a warrior
Settled(n) == Play(VmState, n) = [vm |-> VmState, events |-> <<>>, result |-> result]

\* C37: play does not depend on how the ticks are batched: from every state
\* of the machine, play(m) and then play(n) leave the same core, queues,
\* list of runtimes, cursor and round, notify the same events in the same
\* order and return the same value as one play(m + n); and once play has
\* returned a warrior, every later call returns the same warrior, notifies
\* no event and changes nothing
C37_BatchIndependent ==
    /\ [](~panicked => \A m, n \in 0 .. MaxTicks : Batched(m, n))
    /\ [](result # None => \A n \in 0 .. 2 * MaxTicks : Settled(n))
    /\ [][result # None =>
            /\ result' = result
            /\ events' = <<>>
            /\ UNCHANGED <<core, warriors_queues, warriors_definitions,
                           next_warrior_id, round, panicked>>]_vars

\* after a first call of one tick, a second call of one tick is short of the
\* end of the game, which two more ticks reach after a removal
C37_Witness ==
    /\ last_step = "return"
    /\ call.args = <<1>>
    /\ result = None
    /\ ~panicked
    /\ Len(warriors_queues) = 3
    /\ Play(VmState, 1).result = None
    /\ Play(VmState, 1).vm # VmState
    /\ Play(VmState, 2).result # None
    /\ Len(Play(Play(VmState, 1).vm, 1).events) >= 2

====
